---- MODULE Spec2Model ----
(***************************************************************************)
(* State-machine model of the streaming extraction-and-upload pipeline of  *)
(* VideoSceneDetector:                                                     *)
(*   - UploadQueueManager   (src/app/utils/upload_queue.py)                *)
(*   - FrameWatcher         (src/app/utils/frame_watcher.py)               *)
(*   - process_video_task / send_callback (src/app/routers/video.py)       *)
(*                                                                         *)
(* Each component has its own specification over the shared variables:     *)
(*   SpecQueue    - add_frame callers, the upload worker thread, the       *)
(*                  wait_for_completion caller and a wall clock (seconds)  *)
(*   SpecWatcher  - the watcher thread, the process writing frame files    *)
(*                  and a wall clock (ticks of 50 ms)                      *)
(*   SpecDispatch - one run of process_video_task after extraction         *)
(*   SpecCallback - callers of send_callback sharing webhook_sent_tracker  *)
(*   SpecExtract  - the controller of the streaming extraction beside the  *)
(*                  worker, the waiter and the watcher's add_frame calls   *)
(*   SpecStart    - the start of a run, for runs that follow one another   *)
(*   SpecStatsLock, SpecWorkerFair, SpecQueueFair - the manager's lock,    *)
(*                  its worker and its waiter on their own                 *)
(*   SpecMetadata, SpecFps, SpecDelay - parse_ffmpeg_metadata,             *)
(*                  _get_accurate_fps and the delay computation            *)
(*   SpecWatch, SpecWatchFair - a watch session: start(), the _watch_loop  *)
(*                  thread scan by scan, stop() and its join, with a wall  *)
(*                  clock (ticks of 100 ms)                                *)
(*   SpecController - a watch session owned by the streaming extraction or *)
(*                  by upload_frames_with_queue                            *)
(* A specification leaves the variables of the other components unchanged. *)
(***************************************************************************)
EXTENDS Integers, Sequences, FiniteSets, TLC

VARIABLES
    \* ---- UploadQueueManager ------------------------------------------------
    upload_queue,            \* queue.Queue of UploadTask, FIFO
    stats,                   \* self.stats: queued, uploaded, failed, retried
    failed_uploads,          \* self.failed_uploads (frame names)
    is_processing_complete,  \* self.is_processing_complete
    stop_event,              \* self.stop_event of the manager
    max_retries,             \* self.max_retries
    missing,                 \* frame files removed from the output directory
    w_pc,                    \* position of the _upload_worker thread
    w_task,                  \* task held by the worker (local `task`)
    w_sleep,                 \* seconds left of the worker's current time.sleep
    add_pc,                  \* position of each add_frame caller
    wt_pc,                   \* position of the wait_for_completion caller
    wt_elapsed,              \* time.time() - start_time of wait_for_completion
    wt_timeout,              \* argument timeout (0 = None)
    wt_sleep,                \* seconds left of the waiter's current time.sleep
    wt_result,               \* value returned by wait_for_completion
    wt_requeued,             \* history: a retried task was put back on the queue
                             \* during the current grace delay of the waiter
    \* ---- FrameWatcher and the output directory -----------------------------
    fs,                      \* frame files: exists, st_size, age = now - st_mtime
    processed_files,         \* self.processed_files
    fw_stop_event,           \* self.stop_event of the watcher
    fw_pc,                   \* position of the _watch_loop thread
    fw_first,                \* TRUE until the scan before the loop has ended
    fw_frame_files,          \* files of the current listing still to visit
    fw_new_files,            \* local new_files of _scan_directory
    fw_size1,                \* local size1 of _is_file_ready
    fw_sleep,                \* ticks left of the watcher's current time.sleep
    callback_log,            \* files passed to self.callback, in call order
    fw_scans,                \* completed _scan_directory calls (up to MaxScans)
    atomic50,                \* history: files written in one operation exactly
                             \* one tick before the first listing, untouched since
    \* ---- send_callback -----------------------------------------------------
    webhook_sent_tracker,    \* module-level dict, as the set of its keys
    http_log,                \* requests.post calls that have returned or raised
    cb_pc,                   \* position of each concurrent send_callback caller
    cb_args,                 \* its arguments: url and data["process_id"]
    cb_ret,                  \* what its last call returned
    cb_calls,                \* send_callback calls made by each caller
    \* ---- process_video_task ------------------------------------------------
    d_pc,                    \* position of the background task
    d_callback_url,          \* argument callback_url
    d_process_id,            \* local process_id
    d_result,                \* streaming_result / drive_upload_result
    d_webhook_sent,          \* local webhook_sent
    d_frame_count,           \* len(frames_info)
    d_wait_time,             \* local wait_time_seconds
    d_ready_url,             \* local drive_success_webhook_url (NoUrl: unassigned)
    d_raised,                \* an exception reached the except clause
    \* ---- extract_frames_with_streaming_upload ------------------------------
    x_pc,                    \* position of the controller
    ffmpeg_process,          \* the Popen object: state and returncode
    x_idle,                  \* time.time() - last_ffmpeg_activity (seconds)
    x_stalled,               \* history: the controller took the stall branch
    x_return,                \* the returned (success, result), as one record
    \* ---- parse_ffmpeg_metadata --------------------------------------------
    stderr_output,           \* argument stderr_output, as the list of its lines
    md_fps,                  \* local fps, a rational <<numerator, denominator>>
    md_pos,                  \* index of the line the for loop is at
    scene_data,              \* local scene_data, returned when the loop ends
    \* ---- the delay before the "ready" notification ------------------------
    delay_env,               \* WEBHOOK_DELAY_MIN, _PER_FRAME and _MAX as read
    delay_frame_count,       \* local frame_count
    wait_time_seconds,       \* local wait_time_seconds (NotComputed before)
    \* ---- self.stats_lock and the statements it guards ---------------------
    stats_lock,              \* the thread holding self.stats_lock, or Free
    sl_pc,                   \* position of each thread around a `with` block
    sl_key,                  \* the counter the thread is incrementing
    sl_reg,                  \* the value it loaded for the `+= 1`
    sl_returned,             \* calls each thread has completed
    sl_snapshot,             \* the copy made by the last get_statistics
    \* ---- the start of extract_frames_with_streaming_upload, step by step --
    st_pc,                   \* position of the controller in the run
    st_run,                  \* number of the run (runs follow one another)
    output_dir,              \* frame files: "absent", "stale" (left by an
                             \* earlier run) or "fresh" (written by this run)
    drive_service,           \* local drive_service
    drive_folders,           \* ids of the remote folders with the derived
                             \* name under the parent, not trashed
    folder_id,               \* local folder_id
    st_started,              \* what this run has started and not stopped
    st_processed,            \* processed_files of this run's watcher
    st_enqueued,             \* files this run's watcher passed to add_frame
    st_uploaded,             \* files this run's worker uploaded
    st_used,                 \* history: folder_id of every run so far
    st_folders0,             \* history: drive_folders before the first run
    st_return,               \* what the run returned
    \* ---- _get_accurate_fps ------------------------------------------------
    fps_pc,                  \* position inside _get_accurate_fps
    fps_probes,              \* video_path and what ffprobe and mediainfo give
    fps_return,              \* the returned fps, a rational (NoFps before)
    \* ---- a watch session on the wall clock (units of 100 ms) --------------
    watch_dir,               \* self.watch_dir: exists, and the number of frame
                             \* files in it (file f is the f-th written)
    watcher_thread,          \* self.watcher_thread: "none", "alive" or "dead"
    ws_stop_event,           \* self.stop_event of this watcher
    ws_poll_interval,        \* self.poll_interval
    ws_pc,                   \* position of this _watch_loop thread
    ws_first,                \* TRUE in the scan before the loop
    ws_frame_files,          \* files of the listing that are not in
                             \* processed_files and are still to be checked
    ws_new_files,            \* local new_files of _scan_directory
    ws_processed,            \* self.processed_files
    ws_sleep,                \* units left of the thread's time.sleep
    ws_log,                  \* files self.callback was invoked for, in order
    ws_errors,               \* exceptions raised inside scans so far
    ws_owner,                \* position of the thread that owns the watcher
    ws_owner_clock,          \* units left of its time.sleep; inside join, the
                             \* units it has waited
    ws_idle_starts,          \* history: a start() call found no directory
    ws_stopped,              \* history: stop() has returned and start() has
                             \* not been called since
    ss_kind,                 \* the owner: "caller" (any caller of start and
                             \* stop), "streaming" or "existing" (the two
                             \* upload functions of VideoProcessor)
    ss_ffmpeg,               \* the extraction process of the session
    ss_complete,             \* is_processing_complete of the session's manager
    ss_taken,                \* tasks the worker has taken off the queue
    ss_prepass,              \* add_frame calls made by the pre-pass
    ss_total_frames          \* stats['queued'] as read by get_statistics
                             \* (NotComputed before)

queueVars == <<upload_queue, stats, failed_uploads, is_processing_complete,
               stop_event, max_retries, missing, w_pc, w_task, w_sleep,
               add_pc, wt_pc, wt_elapsed, wt_timeout, wt_sleep,
               wt_result, wt_requeued>>

watcherVars == <<fs, processed_files, fw_stop_event, fw_pc, fw_first,
                 fw_frame_files, fw_new_files, fw_size1, fw_sleep,
                 callback_log, fw_scans, atomic50>>

trackerVars == <<webhook_sent_tracker, http_log>>

callbackVars == <<cb_pc, cb_args, cb_ret, cb_calls>>

dispatchVars == <<d_pc, d_callback_url, d_process_id, d_result,
                  d_webhook_sent, d_frame_count, d_wait_time, d_ready_url,
                  d_raised>>

extractVars == <<x_pc, ffmpeg_process, x_idle, x_stalled, x_return>>

metadataVars == <<stderr_output, md_fps, md_pos, scene_data>>

\* the variables of the functions that share no state with the pipeline,
\* and of the statement-level model of the statistics lock
delayVars == <<delay_env, delay_frame_count, wait_time_seconds>>

lockVars == <<stats_lock, sl_pc, sl_key, sl_reg, sl_returned, sl_snapshot>>

startVars == <<st_pc, st_run, output_dir, drive_service, drive_folders,
               folder_id, st_started, st_processed, st_enqueued, st_uploaded,
               st_used, st_folders0, st_return>>

fpsVars == <<fps_pc, fps_probes, fps_return>>

threadVars == <<ws_pc, ws_first, ws_frame_files, ws_new_files, ws_processed,
                ws_sleep, ws_log, ws_errors>>

ownerVars == <<ws_owner, ws_owner_clock, ws_idle_starts, ws_stopped>>

ctlVars == <<ss_kind, ss_ffmpeg, ss_complete, ss_taken, ss_prepass,
             ss_total_frames>>

sessionVars == <<watch_dir, watcher_thread, ws_stop_event, ws_poll_interval,
                 threadVars, ownerVars, ctlVars>>

helperVars == <<metadataVars, delayVars, lockVars, startVars, fpsVars,
                sessionVars>>

vars == <<queueVars, watcherVars, trackerVars, callbackVars, dispatchVars,
          extractVars, helperVars>>

\* wt_requeued after a step of the manager: cleared when a grace delay
\* begins, set when a task with retry_count >= 1 is appended during it
RequeuedInGrace ==
    IF wt_pc # "grace" /\ wt_pc' = "grace" THEN FALSE
    ELSE IF /\ wt_pc = "grace"
            /\ Len(upload_queue') > Len(upload_queue)
            /\ upload_queue'[Len(upload_queue')].retry_count >= 1 THEN TRUE
    ELSE wt_requeued

\* a step of one component leaves the other components alone
QueueOnly ==
    /\ wt_requeued' = RequeuedInGrace
    /\ UNCHANGED <<watcherVars, trackerVars, callbackVars, dispatchVars,
                   extractVars, helperVars>>
WatcherOnly ==
    UNCHANGED <<queueVars, trackerVars, callbackVars, dispatchVars,
                extractVars, helperVars>>
CallbackOnly ==
    UNCHANGED <<queueVars, watcherVars, dispatchVars, extractVars, helperVars>>
DispatchOnly ==
    UNCHANGED <<queueVars, watcherVars, callbackVars, extractVars, helperVars>>
HelperOnly ==
    UNCHANGED <<queueVars, watcherVars, trackerVars, callbackVars,
                dispatchVars, extractVars>>

----------------------------------------------------------------------------
(* Bounds of the model *)

\* add_frame calls in one run
MaxAdds == 1
\* frame files of a run, named by their number: frame_%06d.jpg
Frames == 1..MaxAdds
\* largest configured MAX_RETRIES
MaxRetriesCfg == 3
\* timeout passed to wait_for_completion (seconds)
WaitTimeout == 2
\* frame files in the watched directory, named by their number
MaxFiles == 1
\* largest st_size a frame file grows to
MaxSize == 2
\* scans counted by fw_scans
MaxScans == 2
\* send_callback calls of the concurrent callers
MaxCalls == 2
\* largest number of queued frames in a run result
MaxTotal == 10
\* stall_timeout of the controller (seconds)
StallTimeout == 2
\* lines of the diagnostic text given to parse_ffmpeg_metadata
MaxLines == 2
\* largest WEBHOOK_DELAY_MIN and WEBHOOK_DELAY_MAX (seconds)
MaxDelay == 3
\* largest len(frames_info) of the delay computation
MaxFrameCount == 6
\* calls each thread makes in the model of the statistics lock
MaxStatCalls == 2
\* tasks on the queue when the worker is observed on its own
MaxQueued == 2
\* frame files of the output directory in the model of the start of a run
MaxNames == 2
\* runs that follow one another for the same target
MaxRuns == 2
\* folders with the derived name that exist before the first run
MaxFolders == 2
\* frame files in a watched directory
MaxPresent == 25
\* frame files FFmpeg writes in one streaming extraction
MaxFrames == 11
\* exceptions raised inside the scans of one watcher
MaxErrors == 1

----------------------------------------------------------------------------
(* Program constants of UploadQueueManager *)

RateLimitCooldown == 10
GraceDelay == 2
WaitPollDelay == 1

\* callers of add_frame: the watcher thread (on_new_frame) and the
\* controller's directory-scan pre-pass
Producers == {"watcher", "prepass"}

RECURSIVE Pow2(_)
Pow2(n) == IF n = 0 THEN 1 ELSE 2 * Pow2(n - 1)

\* time.sleep(2 ** task.retry_count)
BackoffDelay(retry_count) == Pow2(retry_count)

\* UploadTask(frame_path, frame_name, folder_id, timestamp, retry_count=0);
\* the path is the name inside the one output directory, folder_id is the
\* manager's and timestamp is never read
UploadTask(frame_name) == [frame_name |-> frame_name, retry_count |-> 0]

NoTask == [frame_name |-> 0, retry_count |-> 0]

\* the manager as constructed, with max_retries = m
QueueConstructed(m) ==
    /\ upload_queue = <<>>
    /\ stats = [queued |-> 0, uploaded |-> 0, failed |-> 0, retried |-> 0]
    /\ failed_uploads = <<>>
    /\ is_processing_complete = FALSE
    /\ stop_event = FALSE
    /\ max_retries = m
    /\ missing = {}
    /\ w_pc = "get"
    /\ w_task = NoTask
    /\ w_sleep = 0
    /\ add_pc = [p \in Producers |-> "idle"]
    /\ wt_pc = "idle"
    /\ wt_elapsed = 0
    /\ wt_timeout = 0
    /\ wt_sleep = 0
    /\ wt_result = FALSE
    /\ wt_requeued = FALSE

QueueInit == \E m \in 1..MaxRetriesCfg : QueueConstructed(m)

workerVars == <<w_pc, w_task, w_sleep>>
waiterVars == <<wt_pc, wt_elapsed, wt_timeout, wt_sleep, wt_result>>

----------------------------------------------------------------------------
(* add_frame: put the task, then count it under stats_lock *)

PutsStarted == stats.queued + Cardinality({p \in Producers : add_pc[p] = "count"})

\* frames are handed to add_frame in the order of their numbers (the watcher
\* sorts its listing)
AddFrame_Put(p, f) ==
    /\ add_pc[p] = "idle"
    /\ PutsStarted < MaxAdds
    /\ f = PutsStarted + 1
    /\ upload_queue' = Append(upload_queue, UploadTask(f))
    /\ add_pc' = [add_pc EXCEPT ![p] = "count"]
    /\ UNCHANGED <<stats, failed_uploads, is_processing_complete, stop_event,
                   max_retries, missing, workerVars, waiterVars>>
    /\ QueueOnly

AddFrame_Count(p) ==
    /\ add_pc[p] = "count"
    /\ stats' = [stats EXCEPT !.queued = @ + 1]
    /\ add_pc' = [add_pc EXCEPT ![p] = "idle"]
    /\ UNCHANGED <<upload_queue, failed_uploads, is_processing_complete,
                   stop_event, max_retries, missing, workerVars, waiterVars>>
    /\ QueueOnly

SetProcessingComplete ==
    /\ ~is_processing_complete
    /\ is_processing_complete' = TRUE
    /\ UNCHANGED <<upload_queue, stats, failed_uploads, stop_event,
                   max_retries, missing, workerVars, add_pc, waiterVars>>
    /\ QueueOnly

\* stop() is called by the controller after wait_for_completion has returned,
\* or instead of it when the run is abandoned
Stop ==
    /\ ~stop_event
    /\ wt_pc \in {"idle", "returned"}
    /\ stop_event' = TRUE
    /\ UNCHANGED <<upload_queue, stats, failed_uploads,
                   is_processing_complete, max_retries, missing, workerVars,
                   add_pc, waiterVars>>
    /\ QueueOnly

\* a frame file is removed from the output directory out-of-band
RemoveFrameFile(f) ==
    /\ f \notin missing
    /\ missing' = missing \cup {f}
    /\ UNCHANGED <<upload_queue, stats, failed_uploads,
                   is_processing_complete, stop_event, max_retries,
                   workerVars, add_pc, waiterVars>>
    /\ QueueOnly

\* one second passes: every running time.sleep has one second less to go and
\* the waiter's elapsed time grows (it is only compared with the timeout, so
\* it is counted up to timeout + 1)
Dec(t) == IF t > 0 THEN t - 1 ELSE 0

ElapsedAfterTick ==
    IF wt_pc \in {"check", "grace", "sleep"} /\ wt_timeout # 0 /\ wt_elapsed <= wt_timeout
      THEN wt_elapsed + 1
      ELSE wt_elapsed

QueueTick ==
    /\ w_sleep > 0 \/ wt_sleep > 0 \/ ElapsedAfterTick # wt_elapsed
    /\ w_sleep' = Dec(w_sleep)
    /\ wt_sleep' = Dec(wt_sleep)
    /\ wt_elapsed' = ElapsedAfterTick
    /\ UNCHANGED <<upload_queue, stats, failed_uploads,
                   is_processing_complete, stop_event, max_retries, missing,
                   w_pc, w_task, add_pc, wt_pc, wt_timeout,
                   wt_result>>
    /\ QueueOnly

----------------------------------------------------------------------------
(* _upload_worker and _upload_single_frame *)

UploadOutcomes == {"ok", "rate_limit", "http_error", "ssl_error", "error"}

\* start() creates self.worker_thread, one thread, unless it is alive
WorkerThreads == {"worker_thread"}

\* the position of a worker thread
WorkerAt(w) == w_pc

\* task = self.upload_queue.get(timeout=1); an empty queue raises
\* queue.Empty and the loop continues, which changes nothing
UploadWorker_Get ==
    /\ w_pc = "get"
    /\ ~stop_event
    /\ upload_queue # <<>>
    /\ w_task' = Head(upload_queue)
    /\ upload_queue' = Tail(upload_queue)
    /\ w_pc' = "upload"
    /\ UNCHANGED <<stats, failed_uploads, is_processing_complete, stop_event,
                   max_retries, missing, w_sleep, add_pc, waiterVars>>
    /\ QueueOnly

UploadWorker_Exit ==
    /\ w_pc = "get"
    /\ stop_event
    /\ w_pc' = "stopped"
    /\ UNCHANGED <<upload_queue, stats, failed_uploads,
                   is_processing_complete, stop_event, max_retries, missing,
                   w_task, w_sleep, add_pc, waiterVars>>
    /\ QueueOnly

\* outcome of one _upload_single_frame call: TRUE (uploaded), FALSE, or
\* FALSE after the rate-limit cooldown
SingleFrameResult(task, gone, outcome) ==
    IF task.frame_name \in gone THEN "false"
    ELSE IF outcome = "ok" THEN "true"
    ELSE IF outcome = "rate_limit" THEN "cooldown"
    ELSE "false"

\* variant: the limit itself still allows a retry
ShouldRetry_Inclusive(retry_count, limit) == retry_count <= limit

\* variant: every failed attempt is counted as a retry
StatsAfterFailure_AlwaysRetried(st, retry) == [st EXCEPT !.retried = @ + 1]

\* variant: a task that goes back on the queue is counted as queued again
StatsAfterFailure_Requeued(st, retry) ==
    IF retry THEN [st EXCEPT !.retried = @ + 1, !.queued = @ + 1]
             ELSE [st EXCEPT !.failed = @ + 1]

\* variant: a failed task is retried whatever its retry_count
ShouldRetry_Always(retry_count, limit) == TRUE

\* variant: every failed attempt is counted as a permanent failure
StatsAfterFailure_FailedEachAttempt(st, retry) == [st EXCEPT !.failed = @ + 1]

\* task.retry_count += 1
NextRetryCount(retry_count) == retry_count + 1

\* if task.retry_count < self.max_retries (after the increment)
ShouldRetry(retry_count, limit) == retry_count < limit

\* the counter a failed attempt increments: retried when the task goes back
\* on the queue, failed when it is given up
StatsAfterFailure(st, retry) ==
    IF retry THEN [st EXCEPT !.retried = @ + 1]
             ELSE [st EXCEPT !.failed = @ + 1]

\* variant: giving a task up ends the worker thread
HandleResult_GiveUpEndsWorker(success) ==
    IF success
      THEN /\ stats' = [stats EXCEPT !.uploaded = @ + 1]
           /\ w_pc' = "get"
           /\ w_task' = NoTask
           /\ w_sleep' = 0
           /\ UNCHANGED failed_uploads
      ELSE LET rc == NextRetryCount(w_task.retry_count)
               retry == ShouldRetry(rc, max_retries) IN
           /\ stats' = StatsAfterFailure(stats, retry)
           /\ IF retry
                THEN /\ w_task' = [w_task EXCEPT !.retry_count = rc]
                     /\ w_sleep' = BackoffDelay(rc)
                     /\ w_pc' = "backoff"
                     /\ UNCHANGED failed_uploads
                ELSE /\ failed_uploads' = Append(failed_uploads, w_task.frame_name)
                     /\ w_pc' = "stopped"
                     /\ w_task' = NoTask
                     /\ w_sleep' = 0

\* the worker's bookkeeping once _upload_single_frame has returned `success`
HandleResult(success) ==
    IF success
      THEN /\ stats' = [stats EXCEPT !.uploaded = @ + 1]
           /\ w_pc' = "get"
           /\ w_task' = NoTask
           /\ w_sleep' = 0
           /\ UNCHANGED failed_uploads
      ELSE LET rc == NextRetryCount(w_task.retry_count)
               retry == ShouldRetry(rc, max_retries) IN
           /\ stats' = StatsAfterFailure(stats, retry)
           /\ IF retry
                THEN /\ w_task' = [w_task EXCEPT !.retry_count = rc]
                     /\ w_sleep' = BackoffDelay(rc)
                     /\ w_pc' = "backoff"
                     /\ UNCHANGED failed_uploads
                ELSE /\ failed_uploads' = Append(failed_uploads, w_task.frame_name)
                     /\ w_pc' = "get"
                     /\ w_task' = NoTask
                     /\ w_sleep' = 0

\* success = self._upload_single_frame(task) returns and is handled; on a
\* rate-limit error the call first sleeps the cooldown
UploadSingleFrame(outcome) ==
    /\ w_pc = "upload"
    /\ LET r == SingleFrameResult(w_task, missing, outcome) IN
         IF r = "cooldown"
           THEN /\ w_pc' = "cooldown"
                /\ w_sleep' = RateLimitCooldown
                /\ UNCHANGED <<stats, failed_uploads, w_task>>
           ELSE HandleResult(r = "true")
    /\ UNCHANGED <<upload_queue, is_processing_complete, stop_event,
                   max_retries, missing, add_pc, waiterVars>>
    /\ QueueOnly

\* time.sleep(10) is over: _upload_single_frame returns False
UploadSingleFrame_Cooldown ==
    /\ w_pc = "cooldown"
    /\ w_sleep = 0
    /\ HandleResult(FALSE)
    /\ UNCHANGED <<upload_queue, is_processing_complete, stop_event,
                   max_retries, missing, add_pc, waiterVars>>
    /\ QueueOnly

\* variant: the retried task goes to the head of the queue
UploadWorker_Requeue_AtHead ==
    /\ w_pc = "backoff"
    /\ w_sleep = 0
    /\ upload_queue' = <<w_task>> \o upload_queue
    /\ w_pc' = "get"
    /\ w_task' = NoTask
    /\ w_sleep' = 0
    /\ UNCHANGED <<stats, failed_uploads, is_processing_complete, stop_event,
                   max_retries, missing, add_pc, waiterVars>>
    /\ QueueOnly

\* time.sleep(2 ** task.retry_count) is over: self.upload_queue.put(task)
UploadWorker_Requeue ==
    /\ w_pc = "backoff"
    /\ w_sleep = 0
    /\ upload_queue' = Append(upload_queue, w_task)
    /\ w_pc' = "get"
    /\ w_task' = NoTask
    /\ w_sleep' = 0
    /\ UNCHANGED <<stats, failed_uploads, is_processing_complete, stop_event,
                   max_retries, missing, add_pc, waiterVars>>
    /\ QueueOnly

----------------------------------------------------------------------------
(* wait_for_completion *)

\* variant: the timeout test never succeeds
TimedOut_Never(timeout, elapsed) == FALSE

\* if timeout and (time.time() - start_time) > timeout
TimedOut(timeout, elapsed) == timeout # 0 /\ elapsed > timeout

Wait_Start(timeout) ==
    /\ wt_pc = "idle"
    /\ ~stop_event
    /\ wt_pc' = "check"
    /\ wt_elapsed' = 0
    /\ wt_timeout' = timeout
    /\ UNCHANGED <<upload_queue, stats, failed_uploads,
                   is_processing_complete, stop_event, max_retries, missing,
                   workerVars, add_pc, wt_sleep, wt_result>>
    /\ QueueOnly

\* the part of the loop body after the emptiness test
Wait_Rest ==
    IF TimedOut(wt_timeout, wt_elapsed)
      THEN /\ wt_pc' = "returned"
           /\ wt_result' = FALSE
           /\ wt_sleep' = 0
      ELSE /\ wt_pc' = "sleep"
           /\ wt_sleep' = WaitPollDelay
           /\ UNCHANGED wt_result

\* first test of the loop body
DrainObserved(q, complete) == q = <<>> /\ complete

Wait_Check ==
    /\ wt_pc = "check"
    /\ IF DrainObserved(upload_queue, is_processing_complete)
         THEN /\ wt_pc' = "grace"
              /\ wt_sleep' = GraceDelay
              /\ UNCHANGED wt_result
         ELSE Wait_Rest
    /\ UNCHANGED <<upload_queue, stats, failed_uploads,
                   is_processing_complete, stop_event, max_retries, missing,
                   workerVars, add_pc, wt_elapsed, wt_timeout>>
    /\ QueueOnly

Wait_Recheck ==
    /\ wt_pc = "grace"
    /\ wt_sleep = 0
    /\ IF upload_queue = <<>>
         THEN /\ wt_pc' = "returned"
              /\ wt_result' = TRUE
              /\ wt_sleep' = 0
         ELSE Wait_Rest
    /\ UNCHANGED <<upload_queue, stats, failed_uploads,
                   is_processing_complete, stop_event, max_retries, missing,
                   workerVars, add_pc, wt_elapsed, wt_timeout>>
    /\ QueueOnly

Wait_Wake ==
    /\ wt_pc = "sleep"
    /\ wt_sleep = 0
    /\ wt_pc' = "check"
    /\ wt_sleep' = 0
    /\ UNCHANGED <<upload_queue, stats, failed_uploads,
                   is_processing_complete, stop_event, max_retries, missing,
                   workerVars, add_pc, wt_elapsed, wt_timeout, wt_result>>
    /\ QueueOnly

----------------------------------------------------------------------------
QueueNext ==
    \/ \E p \in Producers, f \in Frames : AddFrame_Put(p, f)
    \/ \E p \in Producers : AddFrame_Count(p)
    \/ SetProcessingComplete
    \/ Stop
    \/ \E f \in Frames : RemoveFrameFile(f)
    \/ QueueTick
    \/ UploadWorker_Get
    \/ UploadWorker_Exit
    \/ \E o \in UploadOutcomes : UploadSingleFrame(o)
    \/ UploadSingleFrame_Cooldown
    \/ UploadWorker_Requeue
    \/ \E t \in {0, WaitTimeout} : Wait_Start(t)
    \/ Wait_Check
    \/ Wait_Recheck
    \/ Wait_Wake

----------------------------------------------------------------------------
(* FrameWatcher and the output directory; time in ticks of 50 ms *)

\* FRAME_WATCHER_STABILITY_TIME = 0.2 s, read for the sleep and for the
\* threshold
StabilityTicks == 4
\* poll_interval = 0.2 s of the watcher of the streaming extraction
PollTicks == 4
\* ages are only compared with the threshold: counted up to threshold + 1
AgeCap == StabilityTicks + 1

WFiles == 1..MaxFiles

NoFile == [exists |-> FALSE, size |-> 0, age |-> 0]

\* a file written in one operation `a` ticks ago
WrittenFile(a) == [exists |-> TRUE, size |-> 1, age |-> a]

WatcherInit ==
    /\ fs \in [WFiles -> {NoFile, WrittenFile(0), WrittenFile(1)}]
    /\ processed_files = {}
    /\ fw_stop_event = FALSE
    /\ fw_pc = "idle"
    /\ fw_first = TRUE
    /\ fw_frame_files = <<>>
    /\ fw_new_files = <<>>
    /\ fw_size1 = 0
    /\ fw_sleep = 0
    /\ callback_log = <<>>
    /\ fw_scans = 0
    /\ atomic50 = {}

WatcherParked ==
    /\ fs = [f \in WFiles |-> NoFile]
    /\ processed_files = {}
    /\ fw_stop_event = FALSE
    /\ fw_pc = "idle"
    /\ fw_first = TRUE
    /\ fw_frame_files = <<>>
    /\ fw_new_files = <<>>
    /\ fw_size1 = 0
    /\ fw_sleep = 0
    /\ callback_log = <<>>
    /\ fw_scans = 0
    /\ atomic50 = {}

fwLocals == <<fw_pc, fw_first, fw_frame_files, fw_new_files, fw_size1,
              fw_sleep>>

(* the process writing the frames, and out-of-band changes *)

CreateFile(f, s) ==
    /\ ~fs[f].exists
    /\ fs' = [fs EXCEPT ![f] = [exists |-> TRUE, size |-> s, age |-> 0]]
    /\ atomic50' = atomic50 \ {f}
    /\ UNCHANGED <<processed_files, fw_stop_event, fwLocals, callback_log,
                   fw_scans>>
    /\ WatcherOnly

AppendFile(f) ==
    /\ fs[f].exists
    /\ fs[f].size < MaxSize
    /\ fs' = [fs EXCEPT ![f].size = @ + 1, ![f].age = 0]
    /\ atomic50' = atomic50 \ {f}
    /\ UNCHANGED <<processed_files, fw_stop_event, fwLocals, callback_log,
                   fw_scans>>
    /\ WatcherOnly

\* the content is rewritten in place: st_mtime moves, st_size does not
RewriteFile(f) ==
    /\ fs[f].exists
    /\ fs[f].age > 0
    /\ fs' = [fs EXCEPT ![f].age = 0]
    /\ atomic50' = atomic50 \ {f}
    /\ UNCHANGED <<processed_files, fw_stop_event, fwLocals, callback_log,
                   fw_scans>>
    /\ WatcherOnly

RemoveFile(f) ==
    /\ fs[f].exists
    /\ fs' = [fs EXCEPT ![f] = NoFile]
    /\ atomic50' = atomic50 \ {f}
    /\ UNCHANGED <<processed_files, fw_stop_event, fwLocals, callback_log,
                   fw_scans>>
    /\ WatcherOnly

Older(file) ==
    IF file.exists /\ file.age < AgeCap THEN [file EXCEPT !.age = @ + 1] ELSE file

\* 50 ms pass
WatcherTick ==
    /\ fw_sleep > 0 \/ \E f \in WFiles : Older(fs[f]) # fs[f]
    /\ fs' = [f \in WFiles |-> Older(fs[f])]
    /\ fw_sleep' = Dec(fw_sleep)
    /\ UNCHANGED <<processed_files, fw_stop_event, fw_pc, fw_first,
                   fw_frame_files, fw_new_files, fw_size1, callback_log,
                   fw_scans, atomic50>>
    /\ WatcherOnly

(* start, stop and _watch_loop *)

Watcher_Start ==
    /\ fw_pc = "idle"
    /\ fw_pc' = "list"
    /\ UNCHANGED <<fs, processed_files, fw_stop_event, fw_first,
                   fw_frame_files, fw_new_files, fw_size1, fw_sleep,
                   callback_log, fw_scans, atomic50>>
    /\ WatcherOnly

Watcher_Stop ==
    /\ fw_pc # "idle"
    /\ ~fw_stop_event
    /\ fw_stop_event' = TRUE
    /\ UNCHANGED <<fs, processed_files, fwLocals, callback_log, fw_scans,
                   atomic50>>
    /\ WatcherOnly

\* while not self.stop_event.is_set()
Watcher_Loop ==
    /\ fw_pc = "loop"
    /\ fw_pc' = IF fw_stop_event THEN "stopped" ELSE "list"
    /\ UNCHANGED <<fs, processed_files, fw_stop_event, fw_first,
                   fw_frame_files, fw_new_files, fw_size1, fw_sleep,
                   callback_log, fw_scans, atomic50>>
    /\ WatcherOnly

\* time.sleep(self.poll_interval) is over
Watcher_PollWake ==
    /\ fw_pc = "poll_sleep"
    /\ fw_sleep = 0
    /\ fw_pc' = "loop"
    /\ UNCHANGED <<fs, processed_files, fw_stop_event, fw_first,
                   fw_frame_files, fw_new_files, fw_size1, fw_sleep,
                   callback_log, fw_scans, atomic50>>
    /\ WatcherOnly

(* _scan_directory and _is_file_ready *)

RECURSIVE SortedListing(_, _)
\* sorted(self.watch_dir.glob(pattern)): the existing files from number n on
SortedListing(dir, n) ==
    IF n > MaxFiles THEN <<>>
    ELSE IF dir[n].exists THEN <<n>> \o SortedListing(dir, n + 1)
    ELSE SortedListing(dir, n + 1)

Watcher_List ==
    /\ fw_pc = "list"
    /\ fw_frame_files' = SortedListing(fs, 1)
    /\ fw_new_files' = <<>>
    /\ fw_pc' = "visit"
    /\ atomic50' = IF fw_first
                     THEN {f \in WFiles : fs[f] = WrittenFile(1)}
                     ELSE atomic50
    /\ UNCHANGED <<fs, processed_files, fw_stop_event, fw_first, fw_size1,
                   fw_sleep, callback_log, fw_scans>>
    /\ WatcherOnly

\* variant: the processed set is not consulted
IsNewFile_Always(f, processed) == TRUE

\* if file_str not in self.processed_files
IsNewFile(f, processed) == f \notin processed

\* first test of _is_file_ready: TRUE when the check goes on
ExistsNonEmpty(file) == file.exists /\ file.size # 0

\* for file_path in frame_files: ... up to the first test of _is_file_ready
Watcher_Visit ==
    /\ fw_pc = "visit"
    /\ fw_frame_files # <<>>
    /\ LET f == Head(fw_frame_files) IN
         IF IsNewFile(f, processed_files) /\ ExistsNonEmpty(fs[f])
           THEN /\ fw_pc' = "size1"
                /\ UNCHANGED fw_frame_files
           ELSE /\ fw_frame_files' = Tail(fw_frame_files)
                /\ UNCHANGED fw_pc
    /\ UNCHANGED <<fs, processed_files, fw_stop_event, fw_first, fw_new_files,
                   fw_size1, fw_sleep, callback_log, fw_scans, atomic50>>
    /\ WatcherOnly

\* size1 = file_path.stat().st_size; time.sleep(stability_time)
\* (stat of a removed file raises: _is_file_ready returns False)
Watcher_Size1 ==
    /\ fw_pc = "size1"
    /\ LET f == Head(fw_frame_files) IN
         IF fs[f].exists
           THEN /\ fw_size1' = fs[f].size
                /\ fw_sleep' = StabilityTicks
                /\ fw_pc' = "stable"
                /\ UNCHANGED fw_frame_files
           ELSE /\ fw_frame_files' = Tail(fw_frame_files)
                /\ fw_pc' = "visit"
                /\ UNCHANGED <<fw_size1, fw_sleep>>
    /\ UNCHANGED <<fs, processed_files, fw_stop_event, fw_first, fw_new_files,
                   callback_log, fw_scans, atomic50>>
    /\ WatcherOnly

\* variant: the two size reads are not compared
IsFileReady_NoSizeCompare(file, size1) ==
    /\ file.exists
    /\ size1 > 0
    /\ file.age > StabilityTicks

\* variant: the file must have been older than the threshold already when
\* the stability sleep began
IsFileReady_AgeBeforeSleep(file, size1) ==
    /\ file.exists
    /\ size1 = file.size
    /\ size1 > 0
    /\ file.age - StabilityTicks > StabilityTicks

\* the part of _is_file_ready after the sleep
IsFileReady(file, size1) ==
    /\ file.exists
    /\ size1 = file.size
    /\ size1 > 0
    /\ file.age > StabilityTicks

Watcher_Stable ==
    /\ fw_pc = "stable"
    /\ fw_sleep = 0
    /\ LET f == Head(fw_frame_files) IN
         IF IsFileReady(fs[f], fw_size1)
           THEN /\ processed_files' = processed_files \cup {f}
                /\ fw_new_files' = Append(fw_new_files, f)
           ELSE UNCHANGED <<processed_files, fw_new_files>>
    /\ fw_frame_files' = Tail(fw_frame_files)
    /\ fw_size1' = 0
    /\ fw_pc' = "visit"
    /\ UNCHANGED <<fs, fw_stop_event, fw_first, fw_sleep, callback_log,
                   fw_scans, atomic50>>
    /\ WatcherOnly

\* self.callback(frame_path, frame_name) for the next file of new_files
Watcher_Callback ==
    /\ fw_pc = "visit"
    /\ fw_frame_files = <<>>
    /\ fw_new_files # <<>>
    /\ callback_log' = Append(callback_log, Head(fw_new_files))
    /\ fw_new_files' = Tail(fw_new_files)
    /\ UNCHANGED <<fs, processed_files, fw_stop_event, fw_pc, fw_first,
                   fw_frame_files, fw_size1, fw_sleep, fw_scans, atomic50>>
    /\ WatcherOnly

\* _scan_directory returns: into the loop after the first scan, into
\* time.sleep(self.poll_interval) after a scan of the loop
Watcher_ScanDone ==
    /\ fw_pc = "visit"
    /\ fw_frame_files = <<>>
    /\ fw_new_files = <<>>
    /\ fw_scans' = IF fw_scans < MaxScans THEN fw_scans + 1 ELSE fw_scans
    /\ fw_first' = FALSE
    /\ fw_pc' = IF fw_first THEN "loop" ELSE "poll_sleep"
    /\ fw_sleep' = IF fw_first THEN 0 ELSE PollTicks
    /\ UNCHANGED <<fs, processed_files, fw_stop_event, fw_frame_files,
                   fw_new_files, fw_size1, callback_log, atomic50>>
    /\ WatcherOnly

WatcherNext ==
    \/ \E f \in WFiles, s \in 0..1 : CreateFile(f, s)
    \/ \E f \in WFiles : AppendFile(f)
    \/ \E f \in WFiles : RewriteFile(f)
    \/ \E f \in WFiles : RemoveFile(f)
    \/ WatcherTick
    \/ Watcher_Start
    \/ Watcher_Stop
    \/ Watcher_Loop
    \/ Watcher_PollWake
    \/ Watcher_List
    \/ Watcher_Visit
    \/ Watcher_Size1
    \/ Watcher_Stable
    \/ Watcher_Callback
    \/ Watcher_ScanDone

----------------------------------------------------------------------------
(* send_callback and the module-level webhook_sent_tracker *)

\* URLs are sequences of parts, so that `a in b` on strings is a test for a
\* contiguous sub-sequence
NoUrl == <<>>
AnalysisUrl == <<"analysis">>
ProcessorUrl == <<"processor">>
CallerUrl == <<"caller">>
\* a caller's URL that extends the analysis endpoint's URL
AnalysisSubUrl == <<"analysis", "sub">>

Urls == {NoUrl, AnalysisUrl, ProcessorUrl, CallerUrl, AnalysisSubUrl}

\* Python's `sub in url` for a non-empty sub
Contains(url, sub) ==
    \E i \in 1..Len(url) :
        /\ i + Len(sub) - 1 <= Len(url)
        /\ SubSeq(url, i, i + Len(sub) - 1) = sub

\* variant: only the analysis endpoint is exempt from the duplicate test
IsExempt_AnalysisOnly(url) == Contains(url, AnalysisUrl)

\* is_airtable_webhook or is_frame_processor_webhook
IsExempt(url) == Contains(url, AnalysisUrl) \/ Contains(url, ProcessorUrl)

\* the duplicate test of send_callback (the run identifier is never empty)
SkipsDelivery(url, process_id, tracker) ==
    process_id \in tracker /\ ~IsExempt(url)

Responses == {"2xx", "non2xx", "error"}

\* variant: a delivered run identifier is not recorded
TrackerAfter_Never(tracker, url, process_id, response) == tracker

\* webhook_sent_tracker after a request to url has ended with `response`
TrackerAfter(tracker, url, process_id, response) ==
    IF response = "2xx" /\ ~IsExempt(url)
      THEN tracker \cup {process_id}
      ELSE tracker

\* what send_callback returns when it has made the request
ReturnAfter(response) == response = "2xx"

Delivery(url, process_id, success, response) ==
    [url |-> url, process_id |-> process_id, success |-> success,
     response |-> response]

\* one whole send_callback(url, data) call of a single thread; data carries
\* process_id and the success flag, the request ends with `response`
SendCallback(url, process_id, success, response) ==
    IF url = NoUrl \/ SkipsDelivery(url, process_id, webhook_sent_tracker)
      THEN UNCHANGED <<webhook_sent_tracker, http_log>>
      ELSE /\ http_log' = Append(http_log,
                                 Delivery(url, process_id, success, response))
           /\ webhook_sent_tracker' =
                TrackerAfter(webhook_sent_tracker, url, process_id, response)

ProcessIds == {"1730000000_abc123", "1730000001_abc123"}

(* concurrent callers of send_callback (background tasks run on a thread
   pool): the duplicate test and the request are separate steps *)

Callers == {"t1", "t2"}

NoArgs == [url |-> NoUrl, process_id |-> ""]

CallbackInit ==
    /\ webhook_sent_tracker = {}
    /\ http_log = <<>>
    /\ cb_pc = [c \in Callers |-> "idle"]
    /\ cb_args = [c \in Callers |-> NoArgs]
    /\ cb_ret = [c \in Callers |-> "none"]
    /\ cb_calls = [c \in Callers |-> 0]

RECURSIVE SumOver(_, _)
SumOver(fn, S) ==
    IF S = {} THEN 0
    ELSE LET x == CHOOSE y \in S : TRUE IN fn[x] + SumOver(fn, S \ {x})

CallsMade == SumOver(cb_calls, Callers)

\* send_callback is entered: up to the duplicate test
Callback_Call(c, url, pid) ==
    /\ cb_pc[c] = "idle"
    /\ CallsMade < MaxCalls
    /\ cb_calls' = [cb_calls EXCEPT ![c] = @ + 1]
    /\ cb_args' = [cb_args EXCEPT ![c] = [url |-> url, process_id |-> pid]]
    /\ IF url = NoUrl
         THEN /\ cb_ret' = [cb_ret EXCEPT ![c] = "false"]
              /\ UNCHANGED cb_pc
         ELSE IF SkipsDelivery(url, pid, webhook_sent_tracker)
           THEN /\ cb_ret' = [cb_ret EXCEPT ![c] = "already_sent"]
                /\ UNCHANGED cb_pc
           ELSE /\ cb_ret' = [cb_ret EXCEPT ![c] = "none"]
                /\ cb_pc' = [cb_pc EXCEPT ![c] = "post"]
    /\ UNCHANGED <<webhook_sent_tracker, http_log>>
    /\ CallbackOnly

\* requests.post returns or raises
Callback_Respond(c, response) ==
    /\ cb_pc[c] = "post"
    /\ http_log' = Append(http_log, Delivery(cb_args[c].url,
                          cb_args[c].process_id, TRUE, response))
    /\ webhook_sent_tracker' = TrackerAfter(webhook_sent_tracker,
                          cb_args[c].url, cb_args[c].process_id, response)
    /\ cb_ret' = [cb_ret EXCEPT ![c] =
                    IF ReturnAfter(response) THEN "true" ELSE "false"]
    /\ cb_pc' = [cb_pc EXCEPT ![c] = "idle"]
    /\ UNCHANGED <<cb_args, cb_calls>>
    /\ CallbackOnly

CallbackNext ==
    \/ \E c \in Callers, url \in Urls, pid \in ProcessIds :
         Callback_Call(c, url, pid)
    \/ \E c \in Callers, r \in Responses : Callback_Respond(c, r)

----------------------------------------------------------------------------
(* process_video_task from the extraction on *)

\* error texts of a failed extract_frames_with_streaming_upload
Errors == {"FFmpeg processing failed",
           "Failed to initialize Google Drive service",
           "Process interrupted by user",
           "[Errno 2] No such file or directory: 'ffmpeg'",
           "other"}

\* variant: no error text is taken for an FFmpeg error
MentionsFfmpeg_Never(error) == FALSE

\* 'FFmpeg processing failed' in error_details or 'ffmpeg' in error_details.lower()
MentionsFfmpeg(error) ==
    error \in {"FFmpeg processing failed",
               "[Errno 2] No such file or directory: 'ffmpeg'"}

\* variant: a drained queue alone makes the run a success
OverallSuccess_DrainOnly(uploaded, drained) == drained

\* overall_success = stats['uploaded'] > 0 and success
OverallSuccess(uploaded, drained) == uploaded > 0 /\ drained

RunResult(uploaded, failed, total, drained) ==
    [success |-> OverallSuccess(uploaded, drained), error |-> "",
     frames_uploaded |-> uploaded, frames_failed |-> failed,
     total_frames |-> total]

FailedRun(error) ==
    [success |-> FALSE, error |-> error,
     frames_uploaded |-> 0, frames_failed |-> 0, total_frames |-> 0]

\* what extract_frames_with_streaming_upload can return: a run result whose
\* counters satisfy uploaded + failed <= queued, or a failure
StreamingResults ==
    {RunResult(c[1], c[2], c[3], dr) :
        c \in {x \in (0..MaxTotal) \X (0..MaxTotal) \X (0..MaxTotal) :
                  x[1] + x[2] <= x[3]},
        dr \in BOOLEAN}
    \cup {FailedRun(e) : e \in Errors}

\* the first verification: not (frames_uploaded < total_frames - failed_uploads)
UploadVerified(r) == ~(r.frames_uploaded < r.total_frames - r.frames_failed)

\* variant: every queued frame must have been uploaded
VerificationPassed_AllUploaded(r) ==
    /\ r.success
    /\ r.frames_uploaded > 0
    /\ r.frames_uploaded >= r.total_frames

\* upload_verification_passed (the result dict is never empty)
VerificationPassed(r) ==
    /\ r.success
    /\ r.frames_uploaded > 0
    /\ r.frames_uploaded >= r.total_frames - r.frames_failed

DelayMin == 15
DelayMax == 300

\* round(frame_count * 0.75): Python rounds halves to the even neighbour
RoundThreeQuarters(frame_count) ==
    LET q == (3 * frame_count) \div 4
        r == (3 * frame_count) % 4 IN
    IF r < 2 THEN q
    ELSE IF r > 2 THEN q + 1
    ELSE IF q % 2 = 0 THEN q ELSE q + 1

Min(a, b) == IF a < b THEN a ELSE b
Max(a, b) == IF a > b THEN a ELSE b

\* wait_time_seconds = max(delay_min, min(round(frame_count * per_frame), delay_max))
WaitTime(frame_count) ==
    Max(DelayMin, Min(RoundThreeQuarters(frame_count), DelayMax))

FrameCounts == {0, 10, 22, 401}

DispatchInit ==
    /\ webhook_sent_tracker \in SUBSET {"1730000000_abc123"}
    /\ http_log = <<>>
    /\ d_pc = "start"
    /\ d_callback_url \in Urls
    /\ d_process_id = "1730000000_abc123"
    /\ d_result = FailedRun("")
    /\ d_webhook_sent = FALSE
    /\ d_frame_count = 0
    /\ d_wait_time = 0
    /\ d_ready_url = NoUrl
    /\ d_raised = FALSE

DispatchParked ==
    /\ d_pc = "start"
    /\ d_callback_url = NoUrl
    /\ d_process_id = ""
    /\ d_result = FailedRun("")
    /\ d_webhook_sent = FALSE
    /\ d_frame_count = 0
    /\ d_wait_time = 0
    /\ d_ready_url = NoUrl
    /\ d_raised = FALSE

CallbackParked ==
    /\ cb_pc = [c \in Callers |-> "idle"]
    /\ cb_args = [c \in Callers |-> NoArgs]
    /\ cb_ret = [c \in Callers |-> "none"]
    /\ cb_calls = [c \in Callers |-> 0]

\* except Exception: the failure callback goes out unless a webhook was sent
HandleException(response) ==
    /\ d_raised' = TRUE
    /\ d_webhook_sent' = TRUE
    /\ IF d_webhook_sent
         THEN UNCHANGED <<webhook_sent_tracker, http_log>>
         ELSE SendCallback(d_callback_url, d_process_id, FALSE, response)

\* the download: done (or skipped), reported as failed, or raising
Dispatch_Download(download, response) ==
    /\ d_pc = "start"
    /\ CASE download = "ok" ->
              /\ d_pc' = "extract"
              /\ UNCHANGED <<webhook_sent_tracker, http_log, d_webhook_sent,
                             d_raised>>
         [] download = "failed" ->
              /\ SendCallback(d_callback_url, d_process_id, FALSE, response)
              /\ d_webhook_sent' = TRUE
              /\ d_pc' = "aborted"
              /\ UNCHANGED d_raised
         [] download = "raised" ->
              /\ HandleException(response)
              /\ d_pc' = "aborted"
    /\ UNCHANGED <<d_callback_url, d_process_id, d_result, d_frame_count,
                   d_wait_time, d_ready_url>>
    /\ DispatchOnly

\* extract_frames_with_streaming_upload returns r; on success the frame
\* files are listed and the upload is verified
Dispatch_Extract ==
    /\ d_pc = "extract"
    /\ \E r \in StreamingResults, frame_count \in FrameCounts,
          response \in Responses :
       IF ~r.success
         THEN /\ d_result' = r
              /\ d_pc' = "aborted"
              /\ d_webhook_sent' = TRUE
              /\ IF MentionsFfmpeg(r.error)
                   THEN UNCHANGED <<webhook_sent_tracker, http_log>>
                   ELSE SendCallback(d_callback_url, d_process_id, FALSE,
                                     response)
              /\ UNCHANGED d_frame_count
         ELSE /\ d_result' = [r EXCEPT !.success = UploadVerified(r)]
              /\ d_frame_count' = frame_count
              /\ d_pc' = "send_data"
              /\ UNCHANGED <<webhook_sent_tracker, http_log, d_webhook_sent>>
    /\ UNCHANGED <<d_callback_url, d_process_id, d_wait_time, d_ready_url,
                   d_raised>>
    /\ DispatchOnly

\* STEP 1: the data webhook to the analysis endpoint (callback_data has
\* "success": True), then the wait time is computed
Dispatch_SendData(response) ==
    /\ d_pc = "send_data"
    /\ SendCallback(AnalysisUrl, d_process_id, TRUE, response)
    /\ d_webhook_sent' = TRUE
    /\ d_wait_time' = WaitTime(d_frame_count)
    /\ d_pc' = "wait"
    /\ UNCHANGED <<d_callback_url, d_process_id, d_result, d_frame_count,
                   d_ready_url, d_raised>>
    /\ DispatchOnly

\* variant: the ready step is taken without the sleep having ended
Dispatch_Wait_Skipped ==
    /\ d_pc \in {"send_data", "wait"}
    /\ d_pc' = "ready"
    /\ UNCHANGED <<webhook_sent_tracker, http_log, d_callback_url,
                   d_process_id, d_result, d_webhook_sent, d_frame_count,
                   d_wait_time, d_ready_url, d_raised>>
    /\ DispatchOnly

\* STEP 2: time.sleep(wait_time_seconds)
Dispatch_Wait ==
    /\ d_pc = "wait"
    /\ d_pc' = "ready"
    /\ UNCHANGED <<webhook_sent_tracker, http_log, d_callback_url,
                   d_process_id, d_result, d_webhook_sent, d_frame_count,
                   d_wait_time, d_ready_url, d_raised>>
    /\ DispatchOnly

\* STEP 3: the ready webhook to the processor endpoint when the upload
\* verification passed; only then is drive_success_webhook_url assigned
Dispatch_Ready(response) ==
    /\ d_pc = "ready"
    /\ IF VerificationPassed(d_result)
         THEN /\ d_ready_url' = ProcessorUrl
              /\ SendCallback(ProcessorUrl, d_process_id, TRUE, response)
         ELSE UNCHANGED <<d_ready_url, webhook_sent_tracker, http_log>>
    /\ d_pc' = "forward"
    /\ UNCHANGED <<d_callback_url, d_process_id, d_result, d_webhook_sent,
                   d_frame_count, d_wait_time, d_raised>>
    /\ DispatchOnly

\* STEP 4: the forward to the caller's URL; reading the unassigned
\* drive_success_webhook_url raises UnboundLocalError
Dispatch_Forward(response) ==
    /\ d_pc = "forward"
    /\ IF d_callback_url # NoUrl /\ d_callback_url # AnalysisUrl
         THEN IF d_ready_url = NoUrl
                THEN HandleException(response)
                ELSE /\ IF d_callback_url # d_ready_url
                          THEN SendCallback(d_callback_url, d_process_id,
                                            TRUE, response)
                          ELSE UNCHANGED <<webhook_sent_tracker, http_log>>
                     /\ UNCHANGED <<d_webhook_sent, d_raised>>
         ELSE UNCHANGED <<webhook_sent_tracker, http_log, d_webhook_sent,
                          d_raised>>
    /\ d_pc' = "done"
    /\ UNCHANGED <<d_callback_url, d_process_id, d_result, d_frame_count,
                   d_wait_time, d_ready_url>>
    /\ DispatchOnly

DispatchNext ==
    \/ \E dl \in {"ok", "failed", "raised"}, r \in Responses :
         Dispatch_Download(dl, r)
    \/ Dispatch_Extract
    \/ \E r \in Responses : Dispatch_SendData(r)
    \/ Dispatch_Wait
    \/ \E r \in Responses : Dispatch_Ready(r)
    \/ \E r \in Responses : Dispatch_Forward(r)

----------------------------------------------------------------------------
(* extract_frames_with_streaming_upload: the controller thread, the FFmpeg
   process and the thread that consumes its stderr; the manager's worker,
   its waiter and the watcher's add_frame calls run beside it *)

NoProcess == [state |-> "none", returncode |-> 0]
Running == [state |-> "running", returncode |-> 0]
Exited(code) == [state |-> "exited", returncode |-> code]

\* exit statuses of a process that ends by itself
OwnExitCodes == {0, 1}
\* returncode after terminate() / kill(): FFmpeg's own exit on SIGTERM, or
\* the negated signal number
TerminatedCodes == {255, -15, -9}

\* variant: only a death by signal counts as a failure
ProcessFailed_BySignal(returncode) == returncode < 0

\* if ffmpeg_process.returncode != 0
ProcessFailed(returncode) == returncode # 0

\* time_since_ffmpeg_activity > stall_timeout
Stalled(idle) == idle > StallTimeout

\* the steps of this section leave these alone
ExtractOnly ==
    UNCHANGED <<helperVars, trackerVars, callbackVars, dispatchVars, fs, processed_files,
                fw_pc, fw_first, fw_frame_files, fw_new_files, fw_size1,
                fw_sleep, callback_log, fw_scans, atomic50, upload_queue,
                stats, failed_uploads, max_retries, missing, workerVars,
                add_pc, wt_sleep, wt_result, wt_requeued>>

\* from the call up to subprocess.Popen: the remote store is initialised, the
\* manager and the watcher are started, FFmpeg is launched
Extract_Start(outcome) ==
    /\ x_pc = "init"
    /\ CASE outcome = "started" ->
              /\ ffmpeg_process' = Running
              /\ x_pc' = "poll"
              /\ UNCHANGED x_return
         [] outcome = "no_drive_service" ->
              /\ x_return' =
                   FailedRun("Failed to initialize Google Drive service")
              /\ x_pc' = "done"
              /\ UNCHANGED ffmpeg_process
         [] outcome = "raised" ->
              /\ x_return' = FailedRun("other")
              /\ x_pc' = "done"
              /\ UNCHANGED ffmpeg_process
    /\ x_idle' = 0
    /\ UNCHANGED <<x_stalled, is_processing_complete, stop_event,
                   fw_stop_event, wt_pc, wt_elapsed, wt_timeout>>
    /\ ExtractOnly

\* the process ends by itself
Ffmpeg_Exit(code) ==
    /\ ffmpeg_process = Running
    /\ ffmpeg_process' = Exited(code)
    /\ UNCHANGED <<x_pc, x_idle, x_stalled, x_return, is_processing_complete,
                   stop_event, fw_stop_event, wt_pc, wt_elapsed, wt_timeout>>
    /\ ExtractOnly

\* consume_ffmpeg_output reads a line: last_ffmpeg_activity = time.time()
Ffmpeg_Output ==
    /\ ffmpeg_process = Running
    /\ x_idle > 0
    /\ x_idle' = 0
    /\ UNCHANGED <<x_pc, ffmpeg_process, x_stalled, x_return,
                   is_processing_complete, stop_event, fw_stop_event, wt_pc,
                   wt_elapsed, wt_timeout>>
    /\ ExtractOnly

\* one second passes: as QueueTick, and the time since the last FFmpeg
\* activity grows (it is only compared with stall_timeout, so it is counted
\* up to stall_timeout + 1)
IdleAfterTick ==
    IF x_pc \in {"poll", "monitor", "terminate"} /\ ~Stalled(x_idle)
      THEN x_idle + 1
      ELSE x_idle

Extract_Tick ==
    /\ \/ w_sleep > 0
       \/ wt_sleep > 0
       \/ ElapsedAfterTick # wt_elapsed
       \/ IdleAfterTick # x_idle
    /\ w_sleep' = Dec(w_sleep)
    /\ wt_sleep' = Dec(wt_sleep)
    /\ wt_elapsed' = ElapsedAfterTick
    /\ x_idle' = IdleAfterTick
    /\ UNCHANGED <<x_pc, ffmpeg_process, x_stalled, x_return, helperVars,
                   trackerVars,
                   callbackVars, dispatchVars, watcherVars, upload_queue,
                   stats, failed_uploads, is_processing_complete, stop_event,
                   max_retries, missing, w_pc, w_task, add_pc, wt_pc,
                   wt_timeout, wt_result, wt_requeued>>

\* while ffmpeg_process.poll() is None
Extract_Poll ==
    /\ x_pc = "poll"
    /\ x_pc' = IF ffmpeg_process = Running THEN "monitor" ELSE "communicate"
    /\ UNCHANGED <<ffmpeg_process, x_idle, x_stalled, x_return,
                   is_processing_complete, stop_event, fw_stop_event, wt_pc,
                   wt_elapsed, wt_timeout>>
    /\ ExtractOnly

\* the loop body: the second poll(), the frame count, the stall test, and
\* time.sleep(2) when there is no stall
Extract_Monitor ==
    /\ x_pc = "monitor"
    /\ IF ffmpeg_process # Running
         THEN x_pc' = "communicate" /\ UNCHANGED x_stalled
         ELSE IF Stalled(x_idle)
           THEN x_pc' = "terminate" /\ x_stalled' = TRUE
           ELSE x_pc' = "poll" /\ UNCHANGED x_stalled
    /\ UNCHANGED <<ffmpeg_process, x_idle, x_return, is_processing_complete,
                   stop_event, fw_stop_event, wt_pc, wt_elapsed, wt_timeout>>
    /\ ExtractOnly

\* the stall branch: terminate(), time.sleep(2), kill() if still alive,
\* set_processing_complete(), time.sleep(5), break
Extract_Terminate ==
    /\ x_pc = "terminate"
    /\ IF ffmpeg_process = Running
         THEN \E code \in TerminatedCodes : ffmpeg_process' = Exited(code)
         ELSE UNCHANGED ffmpeg_process
    /\ is_processing_complete' = TRUE
    /\ x_pc' = "communicate"
    /\ UNCHANGED <<x_idle, x_stalled, x_return, stop_event, fw_stop_event,
                   wt_pc, wt_elapsed, wt_timeout>>
    /\ ExtractOnly

\* communicate() returns once the process has ended; a failed process ends
\* the run, otherwise completion is signalled and wait_for_completion entered
Extract_Communicate ==
    /\ x_pc = "communicate"
    /\ ffmpeg_process.state = "exited"
    /\ IF ProcessFailed(ffmpeg_process.returncode)
         THEN /\ fw_stop_event' = TRUE
              /\ stop_event' = TRUE
              /\ x_return' = FailedRun("FFmpeg processing failed")
              /\ x_pc' = "done"
              /\ UNCHANGED <<is_processing_complete, wt_pc, wt_elapsed,
                             wt_timeout>>
         ELSE /\ is_processing_complete' = TRUE
              /\ wt_pc' = "check"
              /\ wt_elapsed' = 0
              /\ wt_timeout' = WaitTimeout
              /\ x_pc' = "waiting"
              /\ UNCHANGED <<fw_stop_event, stop_event, x_return>>
    /\ UNCHANGED <<ffmpeg_process, x_idle, x_stalled>>
    /\ ExtractOnly

\* wait_for_completion has returned: frame_watcher.stop(), upload_queue.stop()
Extract_Stop ==
    /\ x_pc = "waiting"
    /\ wt_pc = "returned"
    /\ fw_stop_event' = TRUE
    /\ stop_event' = TRUE
    /\ x_pc' = "statistics"
    /\ UNCHANGED <<ffmpeg_process, x_idle, x_stalled, x_return,
                   is_processing_complete, wt_pc, wt_elapsed, wt_timeout>>
    /\ ExtractOnly

\* get_statistics() and the result dict
Extract_Result ==
    /\ x_pc = "statistics"
    /\ x_return' = RunResult(stats.uploaded, stats.failed, stats.queued,
                             wt_result)
    /\ x_pc' = "done"
    /\ UNCHANGED <<ffmpeg_process, x_idle, x_stalled, is_processing_complete,
                   stop_event, fw_stop_event, wt_pc, wt_elapsed, wt_timeout>>
    /\ ExtractOnly

\* on_new_frame, called by the watcher thread once the watcher is started
OnNewFrame_Put(f) ==
    /\ ffmpeg_process # NoProcess
    /\ AddFrame_Put("watcher", f)

ExtractNext ==
    \/ \E o \in {"started", "no_drive_service", "raised"} : Extract_Start(o)
    \/ \E code \in OwnExitCodes : Ffmpeg_Exit(code)
    \/ Ffmpeg_Output
    \/ Extract_Tick
    \/ Extract_Poll
    \/ Extract_Monitor
    \/ Extract_Terminate
    \/ Extract_Communicate
    \/ Extract_Stop
    \/ Extract_Result
    \/ \E f \in Frames : OnNewFrame_Put(f)
    \/ AddFrame_Count("watcher")
    \/ UploadWorker_Get
    \/ UploadWorker_Exit
    \/ \E o \in UploadOutcomes : UploadSingleFrame(o)
    \/ UploadSingleFrame_Cooldown
    \/ UploadWorker_Requeue
    \/ Wait_Check
    \/ Wait_Recheck
    \/ Wait_Wake

----------------------------------------------------------------------------
(* parse_ffmpeg_metadata; timestamps in milliseconds, fps as a rational *)

\* a field the pattern's group would capture is not in the line
NoField == -1

\* a line of the diagnostic text: whether it contains 'Parsed_showinfo',
\* whether it carries the logging prefix 'FFmpeg: ', and the fields n:, pts:
\* and pts_time: of its text
FrameInfoLines ==
    [showinfo : BOOLEAN, prefix : BOOLEAN, n : {0, 4}, pts : {90},
     pts_time : {61500, 3725999}]
\* 'pts:NOPTS' has no digits for the second group
NoPtsLines ==
    [showinfo : BOOLEAN, prefix : BOOLEAN, n : {4}, pts : {NoField},
     pts_time : {61500}]
\* the filter's configuration lines and any other output
OtherLines ==
    [showinfo : BOOLEAN, prefix : BOOLEAN, n : {NoField}, pts : {NoField},
     pts_time : {NoField}]
Lines == FrameInfoLines \cup NoPtsLines \cup OtherLines

\* values _get_accurate_fps returns
FpsValues == {<<30, 1>>, <<25, 1>>, <<30000, 1001>>}

\* the texts of at most n lines
TextsUpTo(n) == UNION {[1..k -> Lines] : k \in 0..n}

\* clean_line = line.split('FFmpeg: ', 1)[1] when the prefix is present
CleanLine(line) == IF line.prefix THEN [line EXCEPT !.prefix = FALSE] ELSE line

\* re.search(pattern, clean_line): all three groups must capture digits
Matches(clean_line) ==
    /\ clean_line.n # NoField
    /\ clean_line.pts # NoField
    /\ clean_line.pts_time # NoField

\* variant: the index of the line is kept 0-based
FrameNumber_ZeroBased(frame_num) == frame_num

\* frame_number = int(frame_num) + 1
FrameNumber(frame_num) == frame_num + 1

\* f"{v:02d}"
Pad2(v) == IF v < 10 THEN "0" \o ToString(v) ELSE ToString(v)

\* hours, minutes, seconds, frame_in_second and the f-string
FormattedTime(timestamp, fps) ==
    LET hours == timestamp \div 3600000
        minutes == (timestamp % 3600000) \div 60000
        seconds == (timestamp % 60000) \div 1000
        frame_in_second == ((timestamp % 1000) * fps[1]) \div (1000 * fps[2])
    IN  Pad2(hours) \o ":" \o Pad2(minutes) \o ":" \o Pad2(seconds) \o ":"
          \o Pad2(frame_in_second)

\* the dict appended to scene_data
SceneRecord(clean_line, fps) ==
    [frame_number |-> FrameNumber(clean_line.n),
     pts |-> clean_line.pts,
     timestamp |-> clean_line.pts_time,
     formatted_time |-> FormattedTime(clean_line.pts_time, fps),
     fps |-> fps]

MetadataInit ==
    /\ stderr_output \in TextsUpTo(MaxLines)
    /\ md_fps \in FpsValues
    /\ md_pos = 1
    /\ scene_data = <<>>

\* one iteration of: for line in stderr_output.split('\n')
Parse_Line ==
    /\ md_pos <= Len(stderr_output)
    /\ LET line == stderr_output[md_pos]
       IN  scene_data' =
             IF line.showinfo /\ Matches(CleanLine(line))
               THEN Append(scene_data, SceneRecord(CleanLine(line), md_fps))
               ELSE scene_data
    /\ md_pos' = md_pos + 1
    /\ UNCHANGED <<stderr_output, md_fps, delayVars, lockVars, startVars,
                   fpsVars, sessionVars>>
    /\ HelperOnly

\* return scene_data
MetadataReturned == md_pos > Len(stderr_output)

MetadataNext == Parse_Line

----------------------------------------------------------------------------
(* process_video_task, STEP 2: the delay for any configuration; the delay
   per frame is a rational <<numerator, denominator>> *)

NotComputed == -1

\* what the three environment variables can hold
DelayEnvs ==
    [delay_min : 0..MaxDelay,
     delay_per_frame : {<<3, 4>>, <<1, 2>>, <<1, 1>>},
     delay_max : 0..MaxDelay]

\* variant: halves are rounded up
RoundHalfEven_Up(p, q) == (2 * p + q) \div (2 * q)

\* round(p / q) of Python 3 for p >= 0, q > 0: halves go to the even neighbour
RoundHalfEven(p, q) ==
    LET whole == p \div q
        rest == p % q IN
    IF 2 * rest < q THEN whole
    ELSE IF 2 * rest > q THEN whole + 1
    ELSE IF whole % 2 = 0 THEN whole ELSE whole + 1

\* max(delay_min, min(round(frame_count * delay_per_frame), delay_max))
WaitTimeSeconds(count, env) ==
    Max(env.delay_min,
        Min(RoundHalfEven(count * env.delay_per_frame[1],
                          env.delay_per_frame[2]),
            env.delay_max))

DelayInit ==
    /\ delay_env \in DelayEnvs
    /\ delay_frame_count = 0
    /\ wait_time_seconds = NotComputed

\* frame_count = len(frames_info) and the computation of wait_time_seconds
Delay_Compute(count) ==
    /\ wait_time_seconds = NotComputed
    /\ delay_frame_count' = count
    /\ wait_time_seconds' = WaitTimeSeconds(count, delay_env)
    /\ UNCHANGED <<delay_env, metadataVars, lockVars, startVars, fpsVars,
                   sessionVars>>
    /\ HelperOnly

DelayNext == \E count \in 0..MaxFrameCount : Delay_Compute(count)

----------------------------------------------------------------------------
(* self.stats and self.stats_lock, statement by statement: the add_frame
   callers, the upload worker and a caller of get_statistics; `+= 1` on a
   dict item is a load followed by a store *)

Free == "free"

\* the threads that reach a `with self.stats_lock` block
StatThreads == Producers \cup {"worker", "reader"}

\* the counters the worker increments after an upload attempt
WorkerCounters == {"uploaded", "retried", "failed"}

\* variant: the lock is handed out whether or not it is held
CanAcquire_Unguarded(holder) == TRUE

\* Lock.acquire() returns only when no thread holds the lock
CanAcquire(holder) == holder = Free

\* the steps of this section leave these alone
StatsLockOnly ==
    UNCHANGED <<metadataVars, delayVars, startVars, fpsVars, sessionVars,
                watcherVars, trackerVars,
                callbackVars, dispatchVars, extractVars, failed_uploads,
                is_processing_complete, stop_event, max_retries, missing,
                workerVars, add_pc, waiterVars, wt_requeued>>

\* add_frame up to the `with`: the task is put on the queue
Stats_AddFrame(p) ==
    /\ sl_pc[p] = "idle"
    /\ sl_returned[p] < MaxStatCalls
    /\ upload_queue' = Append(upload_queue, UploadTask(Len(upload_queue) + 1))
    /\ sl_pc' = [sl_pc EXCEPT ![p] = "acquire"]
    /\ sl_key' = [sl_key EXCEPT ![p] = "queued"]
    /\ UNCHANGED <<stats, stats_lock, sl_reg, sl_returned, sl_snapshot>>
    /\ StatsLockOnly

\* _upload_worker after _upload_single_frame has returned: it counts the
\* attempt as uploaded, retried or failed
Stats_WorkerResult(key) ==
    /\ sl_pc["worker"] = "idle"
    /\ sl_returned["worker"] < MaxStatCalls
    /\ sl_pc' = [sl_pc EXCEPT !["worker"] = "acquire"]
    /\ sl_key' = [sl_key EXCEPT !["worker"] = key]
    /\ UNCHANGED <<stats, upload_queue, stats_lock, sl_reg, sl_returned,
                   sl_snapshot>>
    /\ StatsLockOnly

\* get_statistics is called
Stats_GetStatistics ==
    /\ sl_pc["reader"] = "idle"
    /\ sl_returned["reader"] < MaxStatCalls
    /\ sl_pc' = [sl_pc EXCEPT !["reader"] = "acquire"]
    /\ UNCHANGED <<stats, upload_queue, stats_lock, sl_key, sl_reg,
                   sl_returned, sl_snapshot>>
    /\ StatsLockOnly

\* with self.stats_lock: __enter__
Lock_Acquire(t) ==
    /\ sl_pc[t] = "acquire"
    /\ CanAcquire(stats_lock)
    /\ stats_lock' = t
    /\ sl_pc' = [sl_pc EXCEPT ![t] = IF t = "reader" THEN "copy" ELSE "load"]
    /\ UNCHANGED <<stats, upload_queue, sl_key, sl_reg, sl_returned,
                   sl_snapshot>>
    /\ StatsLockOnly

\* self.stats[key] += 1, first half: the item is read
Lock_Load(t) ==
    /\ sl_pc[t] = "load"
    /\ sl_reg' = [sl_reg EXCEPT ![t] = stats[sl_key[t]]]
    /\ sl_pc' = [sl_pc EXCEPT ![t] = "store"]
    /\ UNCHANGED <<stats, upload_queue, stats_lock, sl_key, sl_returned,
                   sl_snapshot>>
    /\ StatsLockOnly

\* self.stats[key] += 1, second half: the sum is stored (the loaded value
\* is not used again)
Lock_Store(t) ==
    /\ sl_pc[t] = "store"
    /\ stats' = [stats EXCEPT ![sl_key[t]] = sl_reg[t] + 1]
    /\ sl_reg' = [sl_reg EXCEPT ![t] = 0]
    /\ sl_pc' = [sl_pc EXCEPT ![t] = "release"]
    /\ UNCHANGED <<upload_queue, stats_lock, sl_key, sl_returned,
                   sl_snapshot>>
    /\ StatsLockOnly

\* stats = self.stats.copy() inside get_statistics
Lock_Copy ==
    /\ sl_pc["reader"] = "copy"
    /\ sl_snapshot' = stats
    /\ sl_pc' = [sl_pc EXCEPT !["reader"] = "release"]
    /\ UNCHANGED <<stats, upload_queue, stats_lock, sl_key, sl_reg,
                   sl_returned>>
    /\ StatsLockOnly

\* __exit__ of the `with` block, and the call returns
Lock_Release(t) ==
    /\ sl_pc[t] = "release"
    /\ stats_lock' = Free
    /\ sl_pc' = [sl_pc EXCEPT ![t] = "idle"]
    /\ sl_returned' = [sl_returned EXCEPT ![t] = @ + 1]
    /\ UNCHANGED <<stats, upload_queue, sl_key, sl_reg, sl_snapshot>>
    /\ StatsLockOnly

StatsLockNext ==
    \/ \E p \in Producers : Stats_AddFrame(p)
    \/ \E key \in WorkerCounters : Stats_WorkerResult(key)
    \/ Stats_GetStatistics
    \/ \E t \in StatThreads : Lock_Acquire(t)
    \/ \E t \in StatThreads : Lock_Load(t)
    \/ \E t \in StatThreads : Lock_Store(t)
    \/ Lock_Copy
    \/ \E t \in StatThreads : Lock_Release(t)

----------------------------------------------------------------------------
(* extract_frames_with_streaming_upload from the call to subprocess.Popen,
   step by step, for runs that follow one another with the same target: the
   output directory, the remote folder, and what the run starts *)

\* frame files of the output directory, named by their number
Names == 1..MaxNames

NoFolder == 0

\* the callers of Start_* that can fail
StartErrors == {"Failed to initialize Google Drive service", "other"}

\* variant: the frames found in the directory are left where they are
ClearedDir_Kept(dir) == dir

\* for frame in existing_frames: os.remove(...)
ClearedDir(dir) == [f \in Names |-> "absent"]

\* variant: a missing service does not end the run
DriveInitFailed_Ignored(service) == FALSE

\* if not drive_service
DriveInitFailed(service) == service = "none"

\* variant: a folder is created whether or not one exists
ReuseExisting_Never(existing) == FALSE

\* if existing_folders
ReuseExisting(existing) == existing # {}

\* the id the remote store gives a new folder
NewFolderId(existing) == Cardinality(existing) + 1

StartInit ==
    /\ st_pc = "clear"
    /\ st_run = 1
    /\ output_dir \in [Names -> {"absent", "stale"}]
    /\ drive_service = "unset"
    /\ \E k \in 0..MaxFolders : drive_folders = 1..k /\ st_folders0 = 1..k
    /\ folder_id = NoFolder
    /\ st_started = {}
    /\ st_processed = {}
    /\ st_enqueued = {}
    /\ st_uploaded = {}
    /\ st_used = <<>>
    /\ st_return = "none"

\* the steps of this section leave these alone
StartOnly ==
    UNCHANGED <<metadataVars, delayVars, lockVars, fpsVars, sessionVars>>
    /\ HelperOnly

\* os.makedirs, the listing of frame_*.jpg and the removal of each; an
\* os.remove that raises ends the run in the except clause
Start_Clear(outcome) ==
    /\ st_pc = "clear"
    /\ IF outcome = "raised"
         THEN /\ \E f \in Names : output_dir[f] # "absent"
              /\ st_return' = "other"
              /\ st_pc' = "returned"
              /\ UNCHANGED output_dir
         ELSE /\ output_dir' = ClearedDir(output_dir)
              /\ st_pc' = "drive"
              /\ UNCHANGED st_return
    /\ UNCHANGED <<st_run, drive_service, drive_folders, folder_id,
                   st_started, st_processed, st_enqueued, st_uploaded,
                   st_used, st_folders0>>
    /\ StartOnly

\* GoogleDriveService(operation_type="upload") and the test of drive_service
Start_DriveService(outcome) ==
    /\ st_pc = "drive"
    /\ drive_service' = outcome
    /\ IF outcome = "raised"
         THEN st_return' = "other" /\ st_pc' = "returned"
         ELSE IF DriveInitFailed(outcome)
           THEN /\ st_return' = "Failed to initialize Google Drive service"
                /\ st_pc' = "returned"
           ELSE st_pc' = "folder" /\ UNCHANGED st_return
    /\ UNCHANGED <<st_run, output_dir, drive_folders, folder_id, st_started,
                   st_processed, st_enqueued, st_uploaded, st_used,
                   st_folders0>>
    /\ StartOnly

\* the query for the folder and, when none exists, its creation; the store
\* returns the existing folders in an order of its own
Start_Folder(outcome) ==
    /\ st_pc = "folder"
    /\ IF outcome = "raised"
         THEN /\ st_return' = "other"
              /\ st_pc' = "returned"
              /\ UNCHANGED <<drive_folders, folder_id, st_used>>
         ELSE /\ IF ReuseExisting(drive_folders)
                   THEN /\ folder_id' \in drive_folders
                        /\ UNCHANGED drive_folders
                   ELSE /\ folder_id' = NewFolderId(drive_folders)
                        /\ drive_folders' =
                             drive_folders \cup {NewFolderId(drive_folders)}
              /\ st_used' = Append(st_used, folder_id')
              /\ st_pc' = "queue"
              /\ UNCHANGED st_return
    /\ UNCHANGED <<st_run, output_dir, drive_service, st_started,
                   st_processed, st_enqueued, st_uploaded, st_folders0>>
    /\ StartOnly

\* UploadQueueManager(drive_service, folder_id) and start()
Start_Queue ==
    /\ st_pc = "queue"
    /\ st_started' = st_started \cup {"worker"}
    /\ st_pc' = "watcher"
    /\ UNCHANGED <<st_run, output_dir, drive_service, drive_folders,
                   folder_id, st_processed, st_enqueued, st_uploaded,
                   st_used, st_folders0, st_return>>
    /\ StartOnly

\* FrameWatcher(output_dir, on_new_frame, poll_interval=0.2) and start()
Start_Watcher ==
    /\ st_pc = "watcher"
    /\ st_started' = st_started \cup {"watcher"}
    /\ st_pc' = "ffmpeg"
    /\ UNCHANGED <<st_run, output_dir, drive_service, drive_folders,
                   folder_id, st_processed, st_enqueued, st_uploaded,
                   st_used, st_folders0, st_return>>
    /\ StartOnly

\* subprocess.Popen(cmd, ...)
Start_Ffmpeg ==
    /\ st_pc = "ffmpeg"
    /\ st_started' = st_started \cup {"ffmpeg"}
    /\ st_pc' = "running"
    /\ UNCHANGED <<st_run, output_dir, drive_service, drive_folders,
                   folder_id, st_processed, st_enqueued, st_uploaded,
                   st_used, st_folders0, st_return>>
    /\ StartOnly

\* FFmpeg writes frame_%06d.jpg with the next number
Start_FfmpegWrites(f) ==
    /\ "ffmpeg" \in st_started
    /\ output_dir[f] = "absent"
    /\ \A g \in Names : g < f => output_dir[g] # "absent"
    /\ output_dir' = [output_dir EXCEPT ![f] = "fresh"]
    /\ UNCHANGED <<st_pc, st_run, drive_service, drive_folders, folder_id,
                   st_started, st_processed, st_enqueued, st_uploaded,
                   st_used, st_folders0, st_return>>
    /\ StartOnly

\* the watcher finds a file it has not processed and calls on_new_frame
Start_WatcherDetects(f) ==
    /\ "watcher" \in st_started
    /\ output_dir[f] # "absent"
    /\ f \notin st_processed
    /\ st_processed' = st_processed \cup {f}
    /\ st_enqueued' =
         st_enqueued \cup {[name |-> f, content |-> output_dir[f]]}
    /\ UNCHANGED <<st_pc, st_run, output_dir, drive_service, drive_folders,
                   folder_id, st_started, st_uploaded, st_used, st_folders0,
                   st_return>>
    /\ StartOnly

\* the worker uploads the file a queued task names, as it is by then
Start_WorkerUploads(f) ==
    /\ "worker" \in st_started
    /\ \E t \in st_enqueued : t.name = f
    /\ \A u \in st_uploaded : u.name # f
    /\ output_dir[f] # "absent"
    /\ st_uploaded' =
         st_uploaded \cup {[name |-> f, content |-> output_dir[f]]}
    /\ UNCHANGED <<st_pc, st_run, output_dir, drive_service, drive_folders,
                   folder_id, st_started, st_processed, st_enqueued, st_used,
                   st_folders0, st_return>>
    /\ StartOnly

\* the rest of the run: the process ends, the watcher and the worker are
\* stopped and the run returns
Start_Finish ==
    /\ st_pc = "running"
    /\ st_started' = {}
    /\ st_return' = "result"
    /\ st_pc' = "returned"
    /\ UNCHANGED <<st_run, output_dir, drive_service, drive_folders,
                   folder_id, st_processed, st_enqueued, st_uploaded,
                   st_used, st_folders0>>
    /\ StartOnly

\* the function is called again for the same target: what the earlier run
\* left in the directory is stale
Start_NextRun ==
    /\ st_pc = "returned"
    /\ st_run < MaxRuns
    /\ st_run' = st_run + 1
    /\ st_pc' = "clear"
    /\ output_dir' =
         [f \in Names |->
            IF output_dir[f] = "absent" THEN "absent" ELSE "stale"]
    /\ drive_service' = "unset"
    /\ folder_id' = NoFolder
    /\ st_processed' = {}
    /\ st_enqueued' = {}
    /\ st_uploaded' = {}
    /\ st_return' = "none"
    /\ UNCHANGED <<drive_folders, st_started, st_used, st_folders0>>
    /\ StartOnly

StartNext ==
    \/ \E o \in {"cleared", "raised"} : Start_Clear(o)
    \/ \E o \in {"service", "none", "raised"} : Start_DriveService(o)
    \/ \E o \in {"resolved", "raised"} : Start_Folder(o)
    \/ Start_Queue
    \/ Start_Watcher
    \/ Start_Ffmpeg
    \/ \E f \in Names : Start_FfmpegWrites(f)
    \/ \E f \in Names : Start_WatcherDetects(f)
    \/ \E f \in Names : Start_WorkerUploads(f)
    \/ Start_Finish
    \/ Start_NextRun

----------------------------------------------------------------------------
(* _get_accurate_fps; a rate is a rational <<numerator, denominator>> *)

\* nothing returned yet
NoFps == <<-1, 0>>

\* a field of the probe's output that is not there
Absent == <<-2, 0>>
\* avg_frame_rate or r_frame_rate given as '0/0'
Unknown == <<0, 0>>
\* a rate text of ffprobe without '/'
NoSlash == <<-3, 0>>

\* rates the probes report; 120/2 is 60.0 as well
ProbeRates == {<<30, 1>>, <<60, 1>>, <<120, 2>>}

\* what ffprobe gives for the first video stream
FfprobeStreams ==
    [ok : {TRUE},
     avg_frame_rate : {Absent, Unknown, NoSlash} \cup ProbeRates,
     r_frame_rate : {Absent, Unknown, NoSlash} \cup ProbeRates]

\* the probe did not run, timed out, returned a non-zero status, printed no
\* JSON, or reported no video stream
FfprobeFailed ==
    [ok |-> FALSE, avg_frame_rate |-> Absent, r_frame_rate |-> Absent]

\* what mediainfo gives for the first track of type Video
MediaInfoTracks ==
    [ok : {TRUE},
     frame_rate : {Absent} \cup ProbeRates,
     frame_rate_original : {Absent} \cup ProbeRates]

\* the same for mediainfo, or no track of type Video
MediaInfoFailed ==
    [ok |-> FALSE, frame_rate |-> Absent, frame_rate_original |-> Absent]

\* variant: no rate is rejected
IsSixty_Never(fps) == FALSE

\* fps != 60.0 is false
IsSixty(fps) == fps[1] = 60 * fps[2]

\* the field is there, is not '0/0' and has a '/'
FfprobeField(value) == value \notin {Absent, Unknown, NoSlash}

\* Method 1: avg_frame_rate, then r_frame_rate; NoFps when neither returns
FromFfprobe(stream) ==
    IF ~stream.ok THEN NoFps
    ELSE IF FfprobeField(stream.avg_frame_rate)
            /\ ~IsSixty(stream.avg_frame_rate) THEN stream.avg_frame_rate
    ELSE IF FfprobeField(stream.r_frame_rate)
            /\ ~IsSixty(stream.r_frame_rate) THEN stream.r_frame_rate
    ELSE NoFps

\* Method 2: frame_rate, then frame_rate_original of the first Video track
FromMediaInfo(track) ==
    IF ~track.ok THEN NoFps
    ELSE IF track.frame_rate # Absent /\ ~IsSixty(track.frame_rate)
           THEN track.frame_rate
    ELSE IF track.frame_rate_original # Absent
            /\ ~IsSixty(track.frame_rate_original)
           THEN track.frame_rate_original
    ELSE NoFps

FpsInit ==
    /\ fps_pc = "call"
    /\ fps_probes \in [video_path : BOOLEAN,
                       ffprobe : {FfprobeFailed} \cup FfprobeStreams,
                       mediainfo : {MediaInfoFailed} \cup MediaInfoTracks]
    /\ fps_return = NoFps

FpsOnly ==
    UNCHANGED <<metadataVars, delayVars, lockVars, startVars, sessionVars>>
    /\ HelperOnly

\* if not video_path: return 30.0
Fps_Call ==
    /\ fps_pc = "call"
    /\ IF fps_probes.video_path
         THEN fps_pc' = "ffprobe" /\ UNCHANGED fps_return
         ELSE fps_pc' = "returned" /\ fps_return' = <<30, 1>>
    /\ UNCHANGED fps_probes
    /\ FpsOnly

\* Method 1 inside its try block
Fps_Ffprobe ==
    /\ fps_pc = "ffprobe"
    /\ LET fps == FromFfprobe(fps_probes.ffprobe) IN
         IF fps # NoFps
           THEN fps_pc' = "returned" /\ fps_return' = fps
           ELSE fps_pc' = "mediainfo" /\ UNCHANGED fps_return
    /\ UNCHANGED fps_probes
    /\ FpsOnly

\* Method 2 inside its try block, and the final fallback
Fps_MediaInfo ==
    /\ fps_pc = "mediainfo"
    /\ LET fps == FromMediaInfo(fps_probes.mediainfo) IN
         fps_return' = IF fps # NoFps THEN fps ELSE <<30, 1>>
    /\ fps_pc' = "returned"
    /\ UNCHANGED fps_probes
    /\ FpsOnly

FpsNext == Fps_Call \/ Fps_Ffprobe \/ Fps_MediaInfo

----------------------------------------------------------------------------
(* A watch session on the wall clock, in units of 100 ms: the _watch_loop
   thread of one FrameWatcher beside the thread that owns it. The frame files
   are written whole, one after the other, and are left alone afterwards, so
   every file of a listing passes _is_file_ready after the stability sleep.
   The owner is any caller of start() and stop(), or the controller of
   extract_frames_with_streaming_upload or of upload_frames_with_queue, whose
   manager is reduced to the counter queued and the tasks on its queue.
   A step of a thread takes no time; time passes when no thread can step *)

\* FRAME_WATCHER_STABILITY_TIME = 0.2 s
StabilityUnits == 2
\* poll_interval = 0.2 of the watcher of the streaming extraction
PollStreaming == 2
\* FRAME_WATCHER_POLL_INTERVAL = 0.5 s, the default
PollDefault == 5
\* self.watcher_thread.join(timeout=5)
JoinTimeout == 50
\* time.sleep(2) and time.sleep(1) of wait_for_completion
GraceUnits == 20
WaitPollUnits == 10

NoDir == [exists |-> FALSE, files |-> 0]
Dir(n) == [exists |-> TRUE, files |-> n]

SessionOnly ==
    UNCHANGED <<metadataVars, delayVars, lockVars, startVars, fpsVars>>
    /\ HelperOnly

\* stats['queued'] of the session's manager: one for every add_frame call
SessionQueued == Len(ws_log) + ss_prepass

\* self.upload_queue.empty()
SessionQueueEmpty == ss_taken = SessionQueued

(* the directory and the processes that write into it *)

Session_CreateDir ==
    /\ ~watch_dir.exists
    /\ watch_dir' = Dir(0)
    /\ UNCHANGED <<watcher_thread, ws_stop_event, ws_poll_interval,
                   threadVars, ownerVars, ctlVars>>
    /\ SessionOnly

\* some process writes the next frame file (a directory that already holds
\* more than MaxNames files is left as it is)
Session_WriteFile ==
    /\ ss_kind = "caller"
    /\ watch_dir.exists
    /\ watch_dir.files < MaxNames
    /\ watch_dir' = Dir(watch_dir.files + 1)
    /\ UNCHANGED <<watcher_thread, ws_stop_event, ws_poll_interval,
                   threadVars, ownerVars, ctlVars>>
    /\ SessionOnly

\* FFmpeg writes the next frame file
Session_FfmpegWrites ==
    /\ ss_ffmpeg = "running"
    /\ watch_dir.files < MaxFrames
    /\ watch_dir' = Dir(watch_dir.files + 1)
    /\ UNCHANGED <<watcher_thread, ws_stop_event, ws_poll_interval,
                   threadVars, ownerVars, ctlVars>>
    /\ SessionOnly

\* FFmpeg exits with status zero (the other runs are in SpecExtract)
Session_FfmpegExit ==
    /\ ss_ffmpeg = "running"
    /\ ss_ffmpeg' = "exited"
    /\ UNCHANGED <<watch_dir, watcher_thread, ws_stop_event, ws_poll_interval,
                   threadVars, ownerVars, ss_kind, ss_complete, ss_taken,
                   ss_prepass, ss_total_frames>>
    /\ SessionOnly

\* the worker takes a task off the queue
Session_WorkerTakes ==
    /\ ss_kind # "caller"
    /\ ws_owner \notin {"start", "done"}
    /\ ~SessionQueueEmpty
    /\ ss_taken' = ss_taken + 1
    /\ UNCHANGED <<watch_dir, watcher_thread, ws_stop_event, ws_poll_interval,
                   threadVars, ownerVars, ss_kind, ss_ffmpeg, ss_complete,
                   ss_prepass, ss_total_frames>>
    /\ SessionOnly

(* the _watch_loop thread *)

\* the thread exists and is not inside time.sleep
ThreadRuns == watcher_thread = "alive" /\ ws_sleep = 0

ThreadFrame ==
    /\ UNCHANGED <<watch_dir, ws_stop_event, ws_poll_interval, ownerVars,
                   ctlVars>>
    /\ SessionOnly

RECURSIVE NewOf(_, _, _)
\* sorted(glob(pattern)) without the files in processed_files: the files
\* f..n that are not in `processed`
NewOf(f, n, processed) ==
    IF f > n THEN <<>>
    ELSE IF f \in processed THEN NewOf(f + 1, n, processed)
    ELSE <<f>> \o NewOf(f + 1, n, processed)

\* _is_file_ready after the stability sleep, for a file written whole
FileWritten(dir, f) == dir.exists /\ f <= dir.files

\* the listing; for the first new file size1 is read and the stability sleep
\* begins
Watch_List(outcome) ==
    /\ ThreadRuns
    /\ ws_pc = "list"
    /\ IF outcome = "raises"
         THEN /\ ws_errors < MaxErrors
              /\ ws_errors' = ws_errors + 1
              /\ ws_pc' = "except"
              /\ UNCHANGED <<ws_frame_files, ws_sleep>>
         ELSE LET listing == NewOf(1, watch_dir.files, ws_processed) IN
              /\ ws_frame_files' = listing
              /\ ws_pc' = IF listing = <<>> THEN "callback" ELSE "stable"
              /\ ws_sleep' = IF listing = <<>> THEN 0 ELSE StabilityUnits
              /\ UNCHANGED ws_errors
    /\ ws_new_files' = <<>>
    /\ UNCHANGED <<watcher_thread, ws_first, ws_processed, ws_log>>
    /\ ThreadFrame

\* the stability sleep is over: the file is marked and collected, and the
\* check of the next new file begins
Watch_Stable ==
    /\ ThreadRuns
    /\ ws_pc = "stable"
    /\ LET f == Head(ws_frame_files) IN
         IF FileWritten(watch_dir, f)
           THEN /\ ws_processed' = ws_processed \cup {f}
                /\ ws_new_files' = Append(ws_new_files, f)
           ELSE UNCHANGED <<ws_processed, ws_new_files>>
    /\ ws_frame_files' = Tail(ws_frame_files)
    /\ ws_pc' = IF Tail(ws_frame_files) = <<>> THEN "callback" ELSE "stable"
    /\ ws_sleep' = IF Tail(ws_frame_files) = <<>> THEN 0 ELSE StabilityUnits
    /\ UNCHANGED <<watcher_thread, ws_first, ws_log, ws_errors>>
    /\ ThreadFrame

\* self.callback(frame_path, frame_name) for the next file of new_files; the
\* callback of the two upload functions, on_new_frame, does not raise
Watch_Callback(outcome) ==
    /\ ThreadRuns
    /\ ws_pc = "callback"
    /\ ws_new_files # <<>>
    /\ ws_log' = Append(ws_log, Head(ws_new_files))
    /\ IF outcome = "raises"
         THEN /\ ss_kind = "caller"
              /\ ws_errors < MaxErrors
              /\ ws_errors' = ws_errors + 1
              /\ ws_pc' = "except"
              /\ ws_new_files' = <<>>
         ELSE /\ ws_new_files' = Tail(ws_new_files)
              /\ UNCHANGED <<ws_pc, ws_errors>>
    /\ UNCHANGED <<watcher_thread, ws_first, ws_frame_files, ws_processed,
                   ws_sleep>>
    /\ ThreadFrame

\* _scan_directory returns: to the loop test after the scan before the loop,
\* to time.sleep(self.poll_interval) and then the loop test inside the loop
ScanReturns ==
    /\ ws_first' = FALSE
    /\ ws_pc' = "loop"
    /\ ws_sleep' = IF ws_first THEN 0 ELSE ws_poll_interval
    /\ UNCHANGED watcher_thread

Watch_ScanDone ==
    /\ ThreadRuns
    /\ ws_pc = "callback"
    /\ ws_new_files = <<>>
    /\ ScanReturns
    /\ UNCHANGED <<ws_frame_files, ws_new_files, ws_processed, ws_log,
                   ws_errors>>
    /\ ThreadFrame

\* variant: an exception inside a scan ends the thread
Watch_Except_Fatal ==
    /\ ThreadRuns
    /\ ws_pc = "except"
    /\ watcher_thread' = "dead"
    /\ ws_pc' = "off"
    /\ UNCHANGED <<ws_first, ws_sleep, ws_frame_files, ws_new_files,
                   ws_processed, ws_log, ws_errors>>
    /\ ThreadFrame

\* except Exception of _scan_directory: the error is logged
Watch_Except ==
    /\ ThreadRuns
    /\ ws_pc = "except"
    /\ ScanReturns
    /\ UNCHANGED <<ws_frame_files, ws_new_files, ws_processed, ws_log,
                   ws_errors>>
    /\ ThreadFrame

\* while not self.stop_event.is_set()
Watch_Loop ==
    /\ ThreadRuns
    /\ ws_pc = "loop"
    /\ IF ws_stop_event
         THEN watcher_thread' = "dead" /\ ws_pc' = "off"
         ELSE ws_pc' = "list" /\ UNCHANGED watcher_thread
    /\ UNCHANGED <<ws_first, ws_frame_files, ws_new_files, ws_processed,
                   ws_sleep, ws_log, ws_errors>>
    /\ ThreadFrame

ThreadNext ==
    \/ \E o \in {"listed", "raises"} : Watch_List(o)
    \/ Watch_Stable
    \/ \E o \in {"returns", "raises"} : Watch_Callback(o)
    \/ Watch_ScanDone
    \/ Watch_Except
    \/ Watch_Loop

(* start() and stop() *)

\* variant: the directory is not looked at
CanStart_Always(dir) == TRUE

\* if not self.watch_dir.exists(): return
CanStart(dir) == dir.exists

\* start()
StartWatcher ==
    IF ~CanStart(watch_dir)
      THEN /\ ws_idle_starts' = TRUE
           /\ UNCHANGED <<watcher_thread, ws_pc, ws_first, ws_sleep>>
      ELSE /\ UNCHANGED ws_idle_starts
           /\ IF watcher_thread # "alive"
                THEN /\ watcher_thread' = "alive"
                     /\ ws_pc' = "list"
                     /\ ws_first' = TRUE
                     /\ ws_sleep' = 0
                ELSE UNCHANGED <<watcher_thread, ws_pc, ws_first, ws_sleep>>

Owner_Start ==
    /\ ss_kind = "caller"
    /\ ws_owner = "idle"
    /\ StartWatcher
    /\ ws_stopped' = FALSE
    /\ UNCHANGED <<watch_dir, ws_stop_event, ws_poll_interval, ws_frame_files,
                   ws_new_files, ws_processed, ws_log, ws_errors, ws_owner,
                   ws_owner_clock, ctlVars>>
    /\ SessionOnly

\* where the owner goes on after stop() has returned
AfterStop ==
    CASE ss_kind = "caller" -> "idle"
      [] ss_kind = "streaming" -> "statistics"
      [] ss_kind = "existing" -> "done"

\* stop() up to the join
Session_Stop ==
    /\ \/ ss_kind = "caller" /\ ws_owner = "idle"
       \/ ws_owner = "stop"
    /\ ws_stop_event' = TRUE
    /\ ws_owner_clock' = 0
    /\ IF watcher_thread = "alive"
         THEN ws_owner' = "joining" /\ UNCHANGED ws_stopped
         ELSE ws_owner' = AfterStop /\ ws_stopped' = TRUE
    /\ UNCHANGED <<watch_dir, watcher_thread, ws_poll_interval, threadVars,
                   ws_idle_starts, ctlVars>>
    /\ SessionOnly

\* self.watcher_thread.join(timeout=5) returns: the thread has ended or the
\* timeout has passed
JoinEnds == watcher_thread # "alive" \/ ws_owner_clock >= JoinTimeout

Session_JoinReturn ==
    /\ ws_owner = "joining"
    /\ JoinEnds
    /\ ws_owner' = AfterStop
    /\ ws_owner_clock' = 0
    /\ ws_stopped' = TRUE
    /\ UNCHANGED <<watch_dir, watcher_thread, ws_stop_event, ws_poll_interval,
                   threadVars, ws_idle_starts, ctlVars>>
    /\ SessionOnly

(* the wall clock *)

OwnerSleeps == ws_owner \in {"grace", "wait_sleep"}

\* the owner can take a step now (a caller between two calls, or the
\* controller in its loop around ffmpeg_process.poll(), steps at any time)
OwnerRuns ==
    \/ ws_owner \in {"start", "prepass", "wait_check", "stop", "statistics"}
    \/ OwnerSleeps /\ ws_owner_clock = 0
    \/ ws_owner = "joining" /\ JoinEnds

\* 100 ms pass
Session_Tick ==
    /\ ~ThreadRuns
    /\ ~OwnerRuns
    /\ ws_sleep > 0 \/ OwnerSleeps \/ ws_owner = "joining"
    /\ ws_sleep' = Dec(ws_sleep)
    /\ ws_owner_clock' = IF ws_owner = "joining" THEN ws_owner_clock + 1
                         ELSE Dec(ws_owner_clock)
    /\ UNCHANGED <<watch_dir, watcher_thread, ws_stop_event, ws_poll_interval,
                   ws_pc, ws_first, ws_frame_files, ws_new_files,
                   ws_processed, ws_log, ws_errors, ws_owner, ws_idle_starts,
                   ws_stopped, ctlVars>>
    /\ SessionOnly

(* the controllers: extract_frames_with_streaming_upload after its folder is
   resolved, and upload_frames_with_queue after its folder is created *)

\* upload_queue.start(), frame_watcher.start() and, for the streaming
\* extraction, subprocess.Popen
Ctl_Start ==
    /\ ss_kind # "caller"
    /\ ws_owner = "start"
    /\ StartWatcher
    /\ ws_stopped' = FALSE
    /\ ss_ffmpeg' = IF ss_kind = "streaming" THEN "running" ELSE ss_ffmpeg
    /\ ws_owner' = IF ss_kind = "streaming" THEN "poll" ELSE "prepass"
    /\ UNCHANGED <<watch_dir, ws_stop_event, ws_poll_interval, ws_frame_files,
                   ws_new_files, ws_processed, ws_log, ws_errors,
                   ws_owner_clock, ss_kind, ss_complete, ss_taken, ss_prepass,
                   ss_total_frames>>
    /\ SessionOnly

\* the pre-pass: add_frame for every frame file of os.listdir, then
\* set_processing_complete()
Ctl_Prepass ==
    /\ ws_owner = "prepass"
    /\ ss_prepass' = watch_dir.files
    /\ ss_complete' = TRUE
    /\ ws_owner' = "wait_check"
    /\ UNCHANGED <<watch_dir, watcher_thread, ws_stop_event, ws_poll_interval,
                   threadVars, ws_owner_clock, ws_idle_starts, ws_stopped,
                   ss_kind, ss_ffmpeg, ss_taken, ss_total_frames>>
    /\ SessionOnly

\* the loop around ffmpeg_process.poll() ends, communicate() returns, the
\* exit status is zero: set_processing_complete()
Ctl_Communicate ==
    /\ ws_owner = "poll"
    /\ ss_ffmpeg = "exited"
    /\ ss_complete' = TRUE
    /\ ws_owner' = "wait_check"
    /\ UNCHANGED <<watch_dir, watcher_thread, ws_stop_event, ws_poll_interval,
                   threadVars, ws_owner_clock, ws_idle_starts, ws_stopped,
                   ss_kind, ss_ffmpeg, ss_taken, ss_prepass, ss_total_frames>>
    /\ SessionOnly

\* where the controller goes on after wait_for_completion has returned
AfterWait == IF ss_kind = "streaming" THEN "stop" ELSE "statistics"

\* wait_for_completion(timeout=1800): the first test of the loop body (the
\* timeout is far beyond the times of the model)
Ctl_WaitCheck ==
    /\ ws_owner = "wait_check"
    /\ IF SessionQueueEmpty /\ ss_complete
         THEN ws_owner' = "grace" /\ ws_owner_clock' = GraceUnits
         ELSE ws_owner' = "wait_sleep" /\ ws_owner_clock' = WaitPollUnits
    /\ UNCHANGED <<watch_dir, watcher_thread, ws_stop_event, ws_poll_interval,
                   threadVars, ws_idle_starts, ws_stopped, ctlVars>>
    /\ SessionOnly

\* the test after time.sleep(2)
Ctl_Recheck ==
    /\ ws_owner = "grace"
    /\ ws_owner_clock = 0
    /\ IF SessionQueueEmpty
         THEN ws_owner' = AfterWait /\ UNCHANGED ws_owner_clock
         ELSE ws_owner' = "wait_sleep" /\ ws_owner_clock' = WaitPollUnits
    /\ UNCHANGED <<watch_dir, watcher_thread, ws_stop_event, ws_poll_interval,
                   threadVars, ws_idle_starts, ws_stopped, ctlVars>>
    /\ SessionOnly

\* time.sleep(1) is over
Ctl_WaitWake ==
    /\ ws_owner = "wait_sleep"
    /\ ws_owner_clock = 0
    /\ ws_owner' = "wait_check"
    /\ UNCHANGED <<watch_dir, watcher_thread, ws_stop_event, ws_poll_interval,
                   threadVars, ws_owner_clock, ws_idle_starts, ws_stopped,
                   ctlVars>>
    /\ SessionOnly

\* stats = upload_queue.get_statistics(): after the two stop() calls in the
\* streaming extraction, before them in upload_frames_with_queue
Ctl_Statistics ==
    /\ ws_owner = "statistics"
    /\ ss_total_frames' = SessionQueued
    /\ ws_owner' = IF ss_kind = "streaming" THEN "done" ELSE "stop"
    /\ UNCHANGED <<watch_dir, watcher_thread, ws_stop_event, ws_poll_interval,
                   threadVars, ws_owner_clock, ws_idle_starts, ws_stopped,
                   ss_kind, ss_ffmpeg, ss_complete, ss_taken, ss_prepass>>
    /\ SessionOnly

\* FrameWatcher(watch_dir, callback, poll_interval=poll) beside its owner
SessionConstructed(kind, dir, poll) ==
    /\ watch_dir = dir
    /\ watcher_thread = "none"
    /\ ws_stop_event = FALSE
    /\ ws_poll_interval = poll
    /\ ws_pc = "off"
    /\ ws_first = TRUE
    /\ ws_frame_files = <<>>
    /\ ws_new_files = <<>>
    /\ ws_processed = {}
    /\ ws_sleep = 0
    /\ ws_log = <<>>
    /\ ws_errors = 0
    /\ ws_owner = IF kind = "caller" THEN "idle" ELSE "start"
    /\ ws_owner_clock = 0
    /\ ws_idle_starts = FALSE
    /\ ws_stopped = FALSE
    /\ ss_kind = kind
    /\ ss_ffmpeg = "none"
    /\ ss_complete = FALSE
    /\ ss_taken = 0
    /\ ss_prepass = 0
    /\ ss_total_frames = NotComputed

\* a watcher on a directory that may not exist yet, or holds a few frame
\* files, or holds many
WatchInit ==
    \E dir \in {NoDir, Dir(MaxPresent)} \cup {Dir(n) : n \in 0..MaxNames},
       poll \in {PollStreaming, PollDefault} :
        SessionConstructed("caller", dir, poll)

\* a watcher on a directory that may not exist yet or holds a few frame files
QuietWatchInit ==
    \E dir \in {NoDir} \cup {Dir(n) : n \in 0..MaxNames},
       poll \in {PollStreaming, PollDefault} :
        SessionConstructed("caller", dir, poll)

\* the streaming extraction has cleared its output directory; the directory
\* of upload_frames_with_queue holds the frames extracted before
ControllerInit ==
    \/ SessionConstructed("streaming", Dir(0), PollStreaming)
    \/ \E n \in 0..MaxNames : SessionConstructed("existing", Dir(n), PollDefault)

WatchNext ==
    \/ Session_CreateDir
    \/ Session_WriteFile
    \/ \E o \in {"listed", "raises"} : Watch_List(o)
    \/ Watch_Stable
    \/ \E o \in {"returns", "raises"} : Watch_Callback(o)
    \/ Watch_ScanDone
    \/ Watch_Except
    \/ Watch_Loop
    \/ Owner_Start
    \/ Session_Stop
    \/ Session_JoinReturn
    \/ Session_Tick

ControllerNext ==
    \/ Session_FfmpegWrites
    \/ Session_FfmpegExit
    \/ Session_WorkerTakes
    \/ \E o \in {"listed", "raises"} : Watch_List(o)
    \/ Watch_Stable
    \/ Watch_Callback("returns")
    \/ Watch_ScanDone
    \/ Watch_Except
    \/ Watch_Loop
    \/ Ctl_Start
    \/ Ctl_Prepass
    \/ Ctl_Communicate
    \/ Ctl_WaitCheck
    \/ Ctl_Recheck
    \/ Ctl_WaitWake
    \/ Ctl_Statistics
    \/ Session_Stop
    \/ Session_JoinReturn
    \/ Session_Tick

----------------------------------------------------------------------------
(* Specifications *)

TrackerParked == webhook_sent_tracker = {} /\ http_log = <<>>

\* extract_frames_with_streaming_upload has not been called
ExtractParked ==
    /\ x_pc = "init"
    /\ ffmpeg_process = NoProcess
    /\ x_idle = 0
    /\ x_stalled = FALSE
    /\ x_return = FailedRun("")

QueueParked == QueueConstructed(3)

\* parse_ffmpeg_metadata has not been called
MetadataParked ==
    /\ stderr_output = <<>>
    /\ md_fps = <<30, 1>>
    /\ md_pos = 1
    /\ scene_data = <<>>

\* the delay has not been computed
DelayParked ==
    /\ delay_env = [delay_min |-> 15, delay_per_frame |-> <<3, 4>>,
                    delay_max |-> 300]
    /\ delay_frame_count = 0
    /\ wait_time_seconds = NotComputed

\* no thread is at a `with self.stats_lock` block
LockParked ==
    /\ stats_lock = Free
    /\ sl_pc = [t \in StatThreads |-> "idle"]
    /\ sl_key = [t \in StatThreads |-> "queued"]
    /\ sl_reg = [t \in StatThreads |-> 0]
    /\ sl_returned = [t \in StatThreads |-> 0]
    /\ sl_snapshot = [queued |-> 0, uploaded |-> 0, failed |-> 0, retried |-> 0]

\* no run has been started
StartParked ==
    /\ st_pc = "clear"
    /\ st_run = 1
    /\ output_dir = [f \in Names |-> "absent"]
    /\ drive_service = "unset"
    /\ drive_folders = {}
    /\ folder_id = NoFolder
    /\ st_started = {}
    /\ st_processed = {}
    /\ st_enqueued = {}
    /\ st_uploaded = {}
    /\ st_used = <<>>
    /\ st_folders0 = {}
    /\ st_return = "none"

\* _get_accurate_fps has not been called
FpsParked ==
    /\ fps_pc = "call"
    /\ fps_probes = [video_path |-> FALSE, ffprobe |-> FfprobeFailed,
                     mediainfo |-> MediaInfoFailed]
    /\ fps_return = NoFps

\* no watcher has been started
SessionParked == SessionConstructed("caller", NoDir, PollDefault)

HelperParked ==
    /\ MetadataParked /\ DelayParked /\ LockParked /\ StartParked
    /\ FpsParked /\ SessionParked

\* no component of the pipeline is running
PipelineParked ==
    /\ QueueParked /\ WatcherParked /\ TrackerParked /\ CallbackParked
    /\ DispatchParked /\ ExtractParked

InitQueue ==
    /\ QueueInit /\ WatcherParked /\ TrackerParked /\ CallbackParked
    /\ DispatchParked /\ ExtractParked /\ HelperParked

SpecQueue == InitQueue /\ [][QueueNext]_vars

\* the manager as its callers construct it: UploadQueueManager(drive_service,
\* folder_id), max_retries from the default
InitQueueDefault ==
    /\ QueueParked /\ WatcherParked /\ TrackerParked /\ CallbackParked
    /\ DispatchParked /\ ExtractParked /\ HelperParked

\* the steps of the thread that is inside wait_for_completion
WaiterNext == Wait_Check \/ Wait_Recheck \/ Wait_Wake

\* the manager of the streaming extraction: on_new_frame, called by the
\* watcher thread, is the only caller of add_frame
StreamingQueueNext ==
    \/ \E f \in Frames : AddFrame_Put("watcher", f)
    \/ AddFrame_Count("watcher")
    \/ SetProcessingComplete
    \/ Stop
    \/ \E f \in Frames : RemoveFrameFile(f)
    \/ QueueTick
    \/ UploadWorker_Get
    \/ UploadWorker_Exit
    \/ \E o \in UploadOutcomes : UploadSingleFrame(o)
    \/ UploadSingleFrame_Cooldown
    \/ UploadWorker_Requeue
    \/ \E t \in {0, WaitTimeout} : Wait_Start(t)
    \/ Wait_Check
    \/ Wait_Recheck
    \/ Wait_Wake

\* the wall clock advances and the thread inside wait_for_completion is
\* scheduled; nothing is assumed about the worker or the producer
SpecQueueFair ==
    /\ InitQueueDefault
    /\ [][StreamingQueueNext]_vars
    /\ WF_vars(QueueTick)
    /\ WF_vars(WaiterNext)

\* the manager after n add_frame calls have returned, the worker not yet
\* having taken a task
QueueHolding(n, m) ==
    /\ upload_queue = [i \in 1..n |-> UploadTask(i)]
    /\ stats = [queued |-> n, uploaded |-> 0, failed |-> 0, retried |-> 0]
    /\ failed_uploads = <<>>
    /\ is_processing_complete = FALSE
    /\ stop_event = FALSE
    /\ max_retries = m
    /\ missing = {}
    /\ w_pc = "get"
    /\ w_task = NoTask
    /\ w_sleep = 0
    /\ add_pc = [p \in Producers |-> "idle"]
    /\ wt_pc = "idle"
    /\ wt_elapsed = 0
    /\ wt_timeout = 0
    /\ wt_sleep = 0
    /\ wt_result = FALSE
    /\ wt_requeued = FALSE

InitWorker ==
    /\ \E n \in 1..MaxQueued, m \in 1..MaxRetriesCfg : QueueHolding(n, m)
    /\ WatcherParked /\ TrackerParked /\ CallbackParked /\ DispatchParked
    /\ ExtractParked /\ HelperParked

\* the steps of the _upload_worker thread
WorkerNext ==
    \/ UploadWorker_Get
    \/ UploadWorker_Exit
    \/ \E o \in UploadOutcomes : UploadSingleFrame(o)
    \/ UploadSingleFrame_Cooldown
    \/ UploadWorker_Requeue

\* the worker beside the controller's set_processing_complete and stop
WorkerQueueNext ==
    \/ UploadWorker_Get
    \/ UploadWorker_Exit
    \/ \E o \in UploadOutcomes : UploadSingleFrame(o)
    \/ UploadSingleFrame_Cooldown
    \/ UploadWorker_Requeue
    \/ QueueTick
    \/ SetProcessingComplete
    \/ Stop

\* the wall clock advances, the worker thread is scheduled and every call to
\* the remote store returns; nothing is assumed about its outcome
SpecWorkerFair ==
    /\ InitWorker
    /\ [][WorkerQueueNext]_vars
    /\ WF_vars(QueueTick)
    /\ WF_vars(WorkerNext)

InitWatcher ==
    /\ WatcherInit /\ QueueParked /\ TrackerParked /\ CallbackParked
    /\ DispatchParked /\ ExtractParked /\ HelperParked

SpecWatcher == InitWatcher /\ [][WatcherNext]_vars

InitCallback ==
    /\ CallbackInit /\ QueueParked /\ WatcherParked /\ DispatchParked
    /\ ExtractParked /\ HelperParked

SpecCallback == InitCallback /\ [][CallbackNext]_vars

InitDispatch ==
    /\ DispatchInit /\ QueueParked /\ WatcherParked /\ CallbackParked
    /\ ExtractParked /\ HelperParked

SpecDispatch == InitDispatch /\ [][DispatchNext]_vars

SpecExtract == InitQueueDefault /\ [][ExtractNext]_vars

InitMetadata ==
    /\ PipelineParked /\ MetadataInit /\ DelayParked /\ LockParked
    /\ StartParked /\ FpsParked /\ SessionParked

SpecMetadata == InitMetadata /\ [][MetadataNext]_vars

SpecStatsLock == InitQueueDefault /\ [][StatsLockNext]_vars

InitDelay ==
    /\ PipelineParked /\ MetadataParked /\ DelayInit /\ LockParked
    /\ StartParked /\ FpsParked /\ SessionParked

InitStart ==
    /\ PipelineParked /\ MetadataParked /\ DelayParked /\ LockParked
    /\ StartInit /\ FpsParked /\ SessionParked

InitFps ==
    /\ PipelineParked /\ MetadataParked /\ DelayParked /\ LockParked
    /\ StartParked /\ FpsInit /\ SessionParked

SpecFps == InitFps /\ [][FpsNext]_vars

SpecStart == InitStart /\ [][StartNext]_vars

SpecDelay == InitDelay /\ [][DelayNext]_vars

InitWatch ==
    /\ PipelineParked /\ MetadataParked /\ DelayParked /\ LockParked
    /\ StartParked /\ FpsParked /\ WatchInit

SpecWatch == InitWatch /\ [][WatchNext]_vars

InitQuietWatch ==
    /\ PipelineParked /\ MetadataParked /\ DelayParked /\ LockParked
    /\ StartParked /\ FpsParked /\ QuietWatchInit

\* the wall clock advances, the watcher thread is scheduled and a join that
\* can return does return
SpecWatchFair ==
    /\ InitQuietWatch
    /\ [][WatchNext]_vars
    /\ WF_vars(Session_Tick)
    /\ WF_vars(ThreadNext)
    /\ WF_vars(Session_JoinReturn)

InitController ==
    /\ PipelineParked /\ MetadataParked /\ DelayParked /\ LockParked
    /\ StartParked /\ FpsParked /\ ControllerInit

SpecController == InitController /\ [][ControllerNext]_vars

----------------------------------------------------------------------------
(* Properties of UploadQueueManager, checked under SpecQueue *)

WaitReturnsTrue == wt_pc # "returned" /\ wt_pc' = "returned" /\ wt_result'

\* C1: whenever wait_for_completion returns True, uploaded + failed equals
\* queued: no task is still held by the worker when drain is reported.
C1_DrainMeansSettled ==
    [][WaitReturnsTrue => stats'.uploaded + stats'.failed = stats'.queued]_vars

\* C2: in every reachable state, under any interleaving of add_frame callers
\* with the upload worker, uploaded + failed <= queued.
C2_SettledAtMostQueued == stats.uploaded + stats.failed <= stats.queued

\* the step in which the worker gives a task up for good
FailsPermanently == stats'.failed # stats.failed

EntersBackoff == w_pc # "backoff" /\ w_pc' = "backoff"

\* C7: every failed attempt that is retried increases the task's retry_count
\* by exactly one; retried is incremented (by one) exactly in the steps in
\* which the worker keeps the task for re-enqueueing, the backoff always ends
\* with that task appended to the queue, and a permanent failure never
\* increments retried.
C7_RetryAccounting ==
    [][/\ EntersBackoff =>
            /\ w_task'.retry_count = w_task.retry_count + 1
            /\ w_task'.frame_name = w_task.frame_name
       /\ (stats'.retried # stats.retried) <=> EntersBackoff
       /\ (stats'.retried # stats.retried) =>
            /\ stats'.retried = stats.retried + 1
            /\ stats'.failed = stats.failed
       /\ (w_pc = "backoff" /\ w_pc' # "backoff") =>
            upload_queue' = Append(upload_queue, w_task)
       /\ FailsPermanently => stats'.retried = stats.retried]_vars

C7_Witness ==
    /\ stats.retried >= 1
    /\ \E i \in DOMAIN upload_queue : upload_queue[i].retry_count >= 1

\* C8: a task whose source file no longer exists when the worker attempts it
\* fails permanently after that single attempt: failed is incremented,
\* retried is not, and the task is not kept for re-enqueueing.
C8_MissingFileFailsAtOnce ==
    [][(w_pc = "upload" /\ w_pc' # "upload" /\ w_task.frame_name \in missing) =>
         /\ stats'.failed = stats.failed + 1
         /\ stats'.retried = stats.retried
         /\ w_pc' # "backoff"]_vars

\* the step in which the waiter begins its grace delay
GraceBegins == wt_pc # "grace" /\ wt_pc' = "grace"

\* C19: wait_for_completion returns True only if set_processing_complete()
\* was called, the queue was empty at the first check (where the grace delay
\* begins) and at the re-check after the grace delay, and no retried task was
\* re-enqueued during the grace delay.
C19_TrueOnlyAfterQuietGrace ==
    [][/\ GraceBegins => (upload_queue = <<>> /\ is_processing_complete)
       /\ WaitReturnsTrue =>
            /\ wt_pc = "grace"
            /\ is_processing_complete
            /\ upload_queue = <<>>
            /\ ~wt_requeued]_vars

\* C20: a wait_for_completion call with a positive timeout returns; when it
\* returns False the elapsed time is greater than the timeout.
C20_WaitTerminates ==
    /\ [](wt_pc = "returned" /\ ~wt_result =>
            wt_timeout > 0 /\ wt_elapsed > wt_timeout)
    /\ (wt_pc = "check" /\ wt_timeout > 0) ~> (wt_pc = "returned")

\* the call has returned False although completion was never signalled
C20_Witness ==
    /\ wt_pc = "returned"
    /\ ~wt_result
    /\ wt_timeout = WaitTimeout
    /\ ~is_processing_complete

\* an add_frame call passes the increment under stats_lock and returns
AddFrameReturns ==
    \E p \in Producers : add_pc[p] = "count" /\ add_pc'[p] = "idle"

\* C23: the queued counter never decreases: every add_frame call adds
\* exactly one to it, and no other step (an upload, a permanent failure, a
\* retry put back on the queue) changes it
C23_QueuedGrowsOnlyByAddFrame ==
    [][/\ stats'.queued >= stats.queued
       /\ AddFrameReturns => stats'.queued = stats.queued + 1
       /\ ~AddFrameReturns => stats'.queued = stats.queued]_vars

C23_Witness ==
    /\ stats.queued = 1
    /\ stats.retried >= 1
    /\ stats.uploaded = 1

\* task f is waiting on the queue
OnQueue(f) == \E i \in 1..Len(upload_queue) : upload_queue[i].frame_name = f

\* the worker is inside _upload_single_frame for task f
Attempting(f) == w_pc = "upload" /\ w_task.frame_name = f

\* C25: a failed task, retried or given up, does not end the worker: it only
\* ends once the manager is stopped, and every task on the queue is
\* eventually attempted unless the manager is stopped
C25_FailuresDoNotInterrupt ==
    /\ [](w_pc = "stopped" => stop_event)
    /\ \A f \in 1..MaxQueued :
         (OnQueue(f) /\ ~stop_event) ~> (Attempting(f) \/ stop_event)

\* the first task was given up and the worker is at the second
C25_Witness ==
    /\ ~stop_event
    /\ Len(failed_uploads) >= 1
    /\ failed_uploads[1] = 1
    /\ Attempting(2)

\* a task is held by a worker that sleeps the retry backoff or the
\* rate-limit cooldown
TaskSleeping == w_pc \in {"backoff", "cooldown"} /\ w_sleep > 0

\* C30: the tasks are processed by a pool of worker loops: while one task
\* sleeps in the retry backoff or the rate-limit cooldown and the manager is
\* not stopped, a worker is there to take the tasks waiting on the queue
C30_PoolTakesTasksDuringSleep ==
    (TaskSleeping /\ upload_queue # <<>> /\ ~stop_event) =>
        \E w \in WorkerThreads : WorkerAt(w) = "get"

\* the worker takes a task off the queue / puts a retried task back
WorkerGets == w_pc = "get" /\ w_pc' = "upload"
WorkerRequeues == w_pc = "backoff" /\ w_pc' = "get"

\* the tasks of queue q that have never failed, by position
NeverFailed(q) == {i \in DOMAIN q : q[i].retry_count = 0}

\* C34: the queue is FIFO and a retried task goes to its tail: the worker
\* always takes the head, a re-enqueue appends the task behind every task
\* already on the queue, no other step of the worker reorders the queue, and
\* the tasks that have never failed are attempted in the order in which they
\* were enqueued (the order of their numbers)
C34_RetriedGoesToTail ==
    [][/\ WorkerGets =>
            /\ w_task' = Head(upload_queue)
            /\ upload_queue' = Tail(upload_queue)
            /\ w_task'.retry_count = 0 =>
                 \A i \in NeverFailed(upload_queue') :
                    upload_queue'[i].frame_name > w_task'.frame_name
       /\ WorkerRequeues =>
            /\ w_task.retry_count >= 1
            /\ upload_queue' = Append(upload_queue, w_task)
       /\ ~(WorkerGets \/ WorkerRequeues) => upload_queue' = upload_queue]_vars

\* the first task has failed once and waits at the tail while the worker
\* attempts the second task, which was enqueued after it
C34_Witness ==
    /\ Attempting(2)
    /\ w_task.retry_count = 0
    /\ upload_queue # <<>>
    /\ upload_queue[Len(upload_queue)] = [frame_name |-> 1, retry_count |-> 1]

\* the tasks that are not yet in a terminal state: on the queue or held by
\* the worker
Pending == Len(upload_queue) + (IF w_task = NoTask THEN 0 ELSE 1)

\* every task is uploaded or given up
AllTerminal ==
    /\ upload_queue = <<>>
    /\ w_task = NoTask
    /\ stats.uploaded + stats.failed = stats.queued

C39_TaskConservation ==
    (w_pc \in {"get", "stopped"} /\ \A p \in Producers : add_pc[p] = "idle") =>
        /\ stats.queued = stats.uploaded + stats.failed + Len(upload_queue)
        /\ Len(failed_uploads) = stats.failed

\* a retried task is back on the queue, the worker is between tasks
C39_Witness ==
    /\ w_pc = "get"
    /\ \A p \in Producers : add_pc[p] = "idle"
    /\ stats.queued = 1
    /\ stats.retried = 1
    /\ Len(upload_queue) = 1
    /\ upload_queue[1].retry_count = 1

----------------------------------------------------------------------------
(* Properties of FrameWatcher, checked under SpecWatcher *)

Delivered == {callback_log[i] : i \in DOMAIN callback_log}

\* C3: within one watch session the callback is invoked at most once for
\* any file, however many polls see the file.
C3_CallbackAtMostOnce ==
    \A i, j \in DOMAIN callback_log :
        callback_log[i] = callback_log[j] => i = j

C3_Witness ==
    /\ fw_scans >= 2
    /\ \E f \in Delivered : fs[f].exists

\* C4: a file is marked processed only at the end of a stability check in
\* which the stability sleep has elapsed, the file exists, its size equals
\* the size read before the sleep and is non-zero, and its modification time
\* is older than the threshold; only such files are passed to the callback.
C4_OnlyStableFilesDelivered ==
    [][/\ \A f \in processed_files' \ processed_files :
            /\ fw_pc = "stable"
            /\ fw_sleep = 0
            /\ f = Head(fw_frame_files)
            /\ fs[f].exists
            /\ fs[f].size = fw_size1
            /\ fw_size1 > 0
            /\ fs[f].age > StabilityTicks
       /\ callback_log' # callback_log =>
            /\ Len(callback_log') = Len(callback_log) + 1
            /\ callback_log'[Len(callback_log')] \in processed_files]_vars

C4_Witness ==
    /\ fw_scans >= 1
    /\ fw_pc = "visit"
    /\ \E f \in processed_files \ Delivered :
         fs[f].exists /\ fs[f].size = MaxSize /\ fs[f].age = AgeCap

\* C5 as stated: a file written in one operation 50 ms (one tick) before the
\* first poll, threshold 200 ms, is not emitted on that first poll.
C5_NotEmittedOnFirstPoll ==
    \A f \in atomic50 : fw_scans = 0 => f \notin Delivered

\* C5 amended: such a file, when it is not touched afterwards, is emitted by
\* the first poll itself: the stability check sleeps 200 ms before it
\* compares the modification time, so the file is at least 250 ms old then.
C5_EmittedByFirstPoll ==
    \A f \in atomic50 : fw_scans >= 1 => f \in Delivered

C5_Witness ==
    /\ fw_scans = 1
    /\ atomic50 # {}
    /\ atomic50 \subseteq Delivered

----------------------------------------------------------------------------
(* Properties of process_video_task, checked under SpecDispatch *)

ReadySent == \E i \in DOMAIN http_log : http_log[i].url = ProcessorUrl

\* C9: in a run that reaches the dispatcher sequence the ready notification
\* is sent to the processor endpoint if and only if uploaded > 0 and
\* uploaded >= total - failed.
C9_ReadyIffVerified ==
    d_pc \in {"forward", "done"} =>
        (ReadySent <=>
            /\ d_result.frames_uploaded > 0
            /\ d_result.frames_uploaded >=
                  d_result.total_frames - d_result.frames_failed)

C9_Witness ==
    /\ d_pc = "done"
    /\ d_result.frames_uploaded = 8
    /\ d_result.total_frames = 10
    /\ d_result.frames_failed = 2
    /\ ReadySent

\* this step makes exactly one request: to url, for this run, with the
\* given "success" value in its payload
Requests(url, success) ==
    /\ http_log' = Append(http_log, http_log'[Len(http_log')])
    /\ http_log'[Len(http_log')].url = url
    /\ http_log'[Len(http_log')].process_id = d_process_id
    /\ http_log'[Len(http_log')].success = success

\* extract_frames_with_streaming_upload returns in this step
ExtractReturns == d_pc = "extract" /\ d_pc' # "extract"

\* C15: whenever the extraction returns an assembled RunResult (a result
\* with counts and no error text), whatever its success flag, the task goes
\* on to the data notification, and that step makes one request to the
\* analysis endpoint tagged with the run identifier.
C15_DataAlwaysSent ==
    [][/\ (ExtractReturns /\ d_result'.error = "") => d_pc' = "send_data"
       /\ (d_pc = "send_data" /\ d_pc' # "send_data") =>
             Requests(AnalysisUrl, TRUE)]_vars

FatalErrors == {"FFmpeg processing failed",
                "Failed to initialize Google Drive service"}

DataSentUnsuccessful ==
    \E i \in DOMAIN http_log :
        /\ http_log[i].url = AnalysisUrl
        /\ http_log[i].process_id = d_process_id
        /\ ~http_log[i].success

\* a ready payload ("success": True) has gone to the processor endpoint
ReadyNotified ==
    \E i \in DOMAIN http_log :
        http_log[i].url = ProcessorUrl /\ http_log[i].success

C17_NotificationOrder ==
    [][/\ (d_pc' = "wait" /\ d_pc # "wait") =>
             (d_pc = "send_data" /\ http_log = <<>>
                /\ Requests(AnalysisUrl, TRUE))
       /\ (d_pc' = "ready" /\ d_pc # "ready") =>
             (d_pc = "wait" /\ http_log' = http_log)
       /\ (d_pc' = "forward" /\ d_pc # "forward") =>
             /\ d_pc = "ready"
             /\ http_log' = http_log \/ Requests(ProcessorUrl, TRUE)
       /\ (d_pc' = "done" /\ d_pc # "done") =>
             /\ d_pc = "forward"
             /\ http_log' = http_log \/ Requests(d_callback_url, TRUE)
       /\ (http_log' # http_log /\ http_log'[Len(http_log')].success) =>
             d_pc \in {"send_data", "ready", "forward"}]_vars

\* the three notifications have been attempted, in this order
C17_Witness ==
    /\ d_pc = "done"
    /\ d_callback_url = CallerUrl
    /\ Len(http_log) = 3
    /\ http_log[1].url = AnalysisUrl
    /\ http_log[2].url = ProcessorUrl
    /\ http_log[3].url = CallerUrl

\* C18: the last step of the sequence forwards the result to the caller's
\* callback URL when that URL is set and is neither configured endpoint,
\* whether or not the ready notification was sent, and makes no request
\* when the URL equals a configured endpoint or is not set (a run
\* identifier already recorded as sent is left aside).
C18_ForwardedAsLastStep ==
    [][(d_pc = "forward" /\ d_pc' # "forward"
          /\ d_process_id \notin webhook_sent_tracker) =>
         IF d_callback_url \notin {NoUrl, AnalysisUrl, ProcessorUrl}
           THEN Requests(d_callback_url, TRUE)
           ELSE http_log' = http_log]_vars

----------------------------------------------------------------------------
(* Properties of send_callback, checked under SpecCallback *)

\* caller c enters send_callback in this step
Calls(c) == cb_calls'[c] # cb_calls[c]

\* a request with the arguments of c's new call has already ended, with a
\* response in rs, and the URL is not one of the two exempt endpoints
EarlierDelivery(c, rs) ==
    /\ ~IsExempt(cb_args'[c].url)
    /\ \E i \in DOMAIN http_log :
         /\ http_log[i].url = cb_args'[c].url
         /\ http_log[i].process_id = cb_args'[c].process_id
         /\ http_log[i].response \in rs

SkippedAsSent(c) ==
    /\ cb_ret'[c] = "already_sent"
    /\ cb_pc'[c] = "idle"
    /\ http_log' = http_log

\* C10 as stated: a send_callback call that follows a delivery attempt with
\* the same run identifier to the same caller-supplied URL makes no request,
\* whatever response the first attempt received.
C10_SecondCallSkipped ==
    [][\A c \in Callers :
         (Calls(c) /\ EarlierDelivery(c, Responses)) => SkippedAsSent(c)]_vars

\* C10 amended: the second call is skipped and reported as already sent
\* when the first attempt received a 2xx response.
C10_SecondCallSkippedAfter2xx ==
    [][\A c \in Callers :
         (Calls(c) /\ EarlierDelivery(c, {"2xx"})) => SkippedAsSent(c)]_vars

C10_Witness ==
    \E c \in Callers :
        /\ cb_ret[c] = "already_sent"
        /\ cb_args[c].url = CallerUrl
        /\ \E i \in DOMAIN http_log :
             /\ http_log[i].url = CallerUrl
             /\ http_log[i].process_id = cb_args[c].process_id

FixedEndpoints == {AnalysisUrl, ProcessorUrl}

\* C11: a send_callback call to the analysis or the processor endpoint is
\* never skipped as a duplicate, whatever the tracker holds and whatever was
\* sent before: the call goes on to its request, the request is one delivery
\* attempt to that endpoint, and neither step changes webhook_sent_tracker.
C11_FixedEndpointsExempt ==
    [][\A c \in Callers :
         /\ (Calls(c) /\ cb_args'[c].url \in FixedEndpoints) =>
               /\ cb_pc'[c] = "post"
               /\ webhook_sent_tracker' = webhook_sent_tracker
         /\ (cb_pc[c] = "post" /\ cb_pc'[c] = "idle"
               /\ cb_args[c].url \in FixedEndpoints) =>
               /\ webhook_sent_tracker' = webhook_sent_tracker
               /\ http_log' = Append(http_log, http_log'[Len(http_log')])
               /\ http_log'[Len(http_log')].url = cb_args[c].url
               /\ http_log'[Len(http_log')].process_id =
                    cb_args[c].process_id]_vars

\* a request to a fixed endpoint was made for a run identifier that the
\* tracker already held from a delivery to the caller's URL
C11_Witness ==
    \E i, j \in DOMAIN http_log :
        /\ i < j
        /\ http_log[i].url = CallerUrl
        /\ http_log[i].response = "2xx"
        /\ http_log[j].url \in FixedEndpoints
        /\ http_log[j].process_id = http_log[i].process_id
        /\ http_log[i].process_id \in webhook_sent_tracker

----------------------------------------------------------------------------
(* Properties of extract_frames_with_streaming_upload *)

\* the controller has returned after it terminated a running process
StallTerminated ==
    /\ x_pc = "done"
    /\ x_stalled
    /\ ffmpeg_process.state = "exited"
    /\ ffmpeg_process.returncode \in TerminatedCodes

\* the controller has returned and never took the stall branch
ExitedByItself(codes) ==
    /\ x_pc = "done"
    /\ ~x_stalled
    /\ ffmpeg_process.state = "exited"
    /\ ffmpeg_process.returncode \in codes

\* C12: when the controller terminates a stalled process that was still
\* running, the run is reported with the uploaded and failed counts of the
\* manager, not as a failed process
C12_StallReportsCounts ==
    StallTerminated =>
        /\ x_return.error = ""
        /\ x_return.frames_uploaded = stats.uploaded
        /\ x_return.frames_failed = stats.failed

C14_SuccessIffUploadedAndDrained ==
    (x_pc = "done" /\ ffmpeg_process = Exited(0)) =>
        /\ x_return.error = ""
        /\ wt_pc = "returned"
        /\ x_return.success <=> (x_return.frames_uploaded > 0 /\ wt_result)

C14_Witness ==
    /\ x_pc = "done"
    /\ ffmpeg_process = Exited(0)
    /\ x_return.success
    /\ x_return.frames_uploaded >= 1

----------------------------------------------------------------------------
(* Properties of parse_ffmpeg_metadata, checked under SpecMetadata *)

\* the frame-info lines of a text, in input order
FrameInfoOf(text) ==
    SelectSeq(text, LAMBDA l : l.showinfo /\ l.n # NoField /\ l.pts # NoField
                                /\ l.pts_time # NoField)

\* HH:MM:SS:FF of t milliseconds: whole hours, minutes and seconds of t and
\* the truncated product of the fraction of a second with the frame rate
TimeCode(t, fps) ==
    LET whole == t \div 1000
        HH == whole \div 3600
        MM == (whole \div 60) % 60
        SS == whole % 60
        FF == ((t - 1000 * whole) * fps[1]) \div (1000 * fps[2])
        Two(v) == IF v <= 9 THEN "0" \o ToString(v) ELSE ToString(v)
    IN  Two(HH) \o ":" \o Two(MM) \o ":" \o Two(SS) \o ":" \o Two(FF)

----------------------------------------------------------------------------
(* Properties of the delay computation, checked under SpecDelay *)

DelayComputed == wait_time_seconds # NotComputed

\* frame_count * per_frame_seconds, as the numerator over the denominator of
\* delay_per_frame
ProductNumerator == delay_frame_count * delay_env.delay_per_frame[1]
ProductDenominator == delay_env.delay_per_frame[2]

\* C22: the delay equals clamp(frame_count * per_frame_seconds, min_delay,
\* max_delay); for min_delay <= max_delay it is never below min_delay, never
\* above max_delay, and non-decreasing in frame_count
C22_DelayIsClampedProduct ==
    DelayComputed =>
        /\ wait_time_seconds * ProductDenominator =
             Max(delay_env.delay_min * ProductDenominator,
                 Min(ProductNumerator,
                     delay_env.delay_max * ProductDenominator))
        /\ delay_env.delay_min <= delay_env.delay_max =>
             /\ wait_time_seconds >= delay_env.delay_min
             /\ wait_time_seconds <= delay_env.delay_max
             /\ \A fewer \in 0..delay_frame_count :
                  WaitTimeSeconds(fewer, delay_env) <= wait_time_seconds

\* r is the product rounded to whole seconds, a half going to the even side
IsRoundedProduct(r) ==
    LET twice == 2 * (r * ProductDenominator - ProductNumerator) IN
    \/ -ProductDenominator < twice /\ twice < ProductDenominator
    \/ (twice = ProductDenominator \/ twice = -ProductDenominator)
         /\ r % 2 = 0

\* C22, amended: the delay is the clamp of the product rounded to whole
\* seconds; the bounds and the monotonicity hold as stated
C22_DelayIsClampedRoundedProduct ==
    DelayComputed =>
        /\ \E r \in 0..(MaxFrameCount + 1) :
             /\ IsRoundedProduct(r)
             /\ wait_time_seconds =
                  Max(delay_env.delay_min, Min(r, delay_env.delay_max))
        /\ delay_env.delay_min <= delay_env.delay_max =>
             /\ wait_time_seconds >= delay_env.delay_min
             /\ wait_time_seconds <= delay_env.delay_max
             /\ \A fewer \in 0..delay_frame_count :
                  WaitTimeSeconds(fewer, delay_env) <= wait_time_seconds

\* a product with a fraction, strictly between the two limits
C22_Witness ==
    /\ DelayComputed
    /\ ProductNumerator % ProductDenominator # 0
    /\ delay_env.delay_min * ProductDenominator < ProductNumerator
    /\ ProductNumerator < delay_env.delay_max * ProductDenominator

----------------------------------------------------------------------------
(* Properties of the statistics lock, checked under SpecStatsLock *)

\* thread t is between __enter__ and __exit__ of a `with self.stats_lock`
InStatsBlock(t) == sl_pc[t] \in {"load", "store", "copy", "release"}

RECURSIVE SumReturned(_)
SumReturned(ps) ==
    IF ps = {} THEN 0
    ELSE LET p == CHOOSE q \in ps : TRUE
         IN  sl_returned[p] + SumReturned(ps \ {p})

\* C24: every read-modify-write of a counter and the copy made by
\* get_statistics happen with the one lock held, so no two threads are at
\* them together; once the add_frame calls of the concurrent callers have
\* returned, queued is their number; the copy is the counters as they are
\* while the lock is held
C24_CountersUnderOneLock ==
    /\ \A t \in StatThreads : InStatsBlock(t) => stats_lock = t
    /\ (\A p \in Producers : sl_pc[p] = "idle") =>
           stats.queued = SumReturned(Producers)
    /\ sl_pc["worker"] = "idle" =>
           stats.uploaded + stats.retried + stats.failed
             = sl_returned["worker"]
    /\ sl_pc["reader"] = "release" => sl_snapshot = stats

C24_Witness ==
    /\ \A p \in Producers : sl_pc[p] = "idle" /\ sl_returned[p] = MaxStatCalls
    /\ stats.queued = 2 * MaxStatCalls
    /\ sl_returned["reader"] >= 1
    /\ sl_snapshot.queued = 1

----------------------------------------------------------------------------
(* Properties of the start of a run, checked under SpecStart *)

\* C26: when the remote-store service cannot be initialised, the run has
\* returned a failure and has started neither the upload worker, nor the
\* watcher, nor the extraction process; nothing was enqueued or uploaded
C26_NoServiceNothingStarted ==
    drive_service \in {"none", "raised"} =>
        /\ st_pc = "returned"
        /\ st_return \in StartErrors
        /\ st_started = {}
        /\ st_enqueued = {}
        /\ st_uploaded = {}

\* the second run finds no service, the first one had started everything
C26_Witness ==
    /\ drive_service = "none"
    /\ st_return = "Failed to initialize Google Drive service"
    /\ st_run = 2
    /\ Len(st_used) = 1

\* C27: while the watcher or the extraction process of a run is started, the
\* output directory holds no frame of an earlier run, and no such frame is
\* ever enqueued or uploaded by the run
C27_NoStaleFrame ==
    /\ (st_started \cap {"watcher", "ffmpeg"} # {}) =>
           \A f \in Names : output_dir[f] # "stale"
    /\ \A t \in st_enqueued \cup st_uploaded : t.content # "stale"

\* the directory held a frame of the first run when the second began, and
\* the second run has uploaded a frame of its own
C27_Witness ==
    /\ st_run = 2
    /\ st_uploaded # {}
    /\ Len(st_used) = 2

\* C28: where a folder with the derived name exists, a run uses one of the
\* existing folders and none is created; where none exists, the runs create
\* exactly one folder and all of them use it
C28_FolderResolvedOnce ==
    /\ st_folders0 # {} =>
         /\ drive_folders = st_folders0
         /\ \A i \in 1..Len(st_used) : st_used[i] \in st_folders0
    /\ (st_folders0 = {} /\ st_used # <<>>) =>
         /\ Cardinality(drive_folders) = 1
         /\ \A i \in 1..Len(st_used) : st_used[i] \in drive_folders

\* two runs have resolved the folder, the first one created it
C28_Witness ==
    /\ st_folders0 = {}
    /\ Len(st_used) = 2
    /\ st_used[1] = st_used[2]

----------------------------------------------------------------------------
(* Properties of _get_accurate_fps, checked under SpecFps *)

\* the candidates in the order of the claim: average rate and nominal rate
\* of the primary probe, then the rates of the secondary probe; a candidate
\* that is not available is left out
RateCandidates ==
    LET p == fps_probes
        primary ==
          IF ~p.video_path \/ ~p.ffprobe.ok THEN <<>>
          ELSE <<p.ffprobe.avg_frame_rate, p.ffprobe.r_frame_rate>>
        secondary ==
          IF ~p.video_path \/ ~p.mediainfo.ok THEN <<>>
          ELSE <<p.mediainfo.frame_rate, p.mediainfo.frame_rate_original>>
    IN  SelectSeq(primary \o secondary,
                  LAMBDA c : c \notin {Absent, Unknown, NoSlash})

\* the candidates that are not 60.0
AcceptedCandidates ==
    SelectSeq(RateCandidates, LAMBDA c : c[1] # 60 * c[2])

----------------------------------------------------------------------------
(* Properties of a watch session, checked under SpecWatch, SpecWatchFair and
   SpecController *)

\* a _watch_loop thread is created
ThreadCreated == watcher_thread # "alive" /\ watcher_thread' = "alive"

\* C31: start() on a watcher whose directory does not exist leaves it idle:
\* a thread is only ever created by a call that finds the directory, and as
\* long as no thread was created nothing is marked and no callback is
\* invoked, whatever appears in the directory afterwards
C31_IdleWithoutDirectory ==
    /\ [][ThreadCreated => watch_dir.exists]_vars
    /\ [][(~ws_idle_starts /\ ws_idle_starts') =>
            /\ ~watch_dir.exists
            /\ watcher_thread' = watcher_thread
            /\ UNCHANGED threadVars]_vars
    /\ [](watcher_thread = "none" =>
            ws_pc = "off" /\ ws_processed = {} /\ ws_log = <<>>)

\* start() found no directory; the directory was created and frame files
\* were written afterwards, and there is still no thread
C31_Witness ==
    /\ ws_idle_starts
    /\ watch_dir = Dir(MaxNames)
    /\ watcher_thread = "none"
    /\ ws_log = <<>>

\* C32: an error raised inside a scan does not end the watch session: the
\* thread ends only after stop(), the scan returns as a scan without error
\* does (to the sleep of poll_interval, or to the loop test after the scan
\* before the loop), and a further scan begins unless stop() is called
C32_ScanErrorNotFatal ==
    /\ [](watcher_thread = "dead" => ws_stop_event)
    /\ [][(ws_pc = "except" /\ ws_pc' # "except") =>
            /\ watcher_thread' = "alive"
            /\ ws_pc' = "loop"
            /\ ws_sleep' = IF ws_first THEN 0 ELSE ws_poll_interval]_vars
    /\ (ws_pc = "except") ~> (ws_pc = "list" \/ ws_stop_event)

\* the callback raised for the first file of a scan inside the loop, and the
\* thread is at the listing of a later scan
C32_Witness ==
    /\ ws_errors = 1
    /\ ws_log = <<1>>
    /\ ws_pc = "list"
    /\ watcher_thread = "alive"
    /\ ~ws_first
    /\ ~ws_stop_event

\* C36: once stop() has returned (and start() has not been called again)
\* the callback is not invoked any more
C36_NoCallbackAfterStop ==
    [][(ws_stopped /\ ws_stopped') => ws_log' = ws_log]_vars

\* the number of times self.callback was invoked for file f
Invocations(f) == Cardinality({i \in DOMAIN ws_log : ws_log[i] = f})

\* C37: between two scans every file in processed_files has been passed to
\* the callback exactly once
C37_EmittedIffDelivered ==
    ws_pc \in {"loop", "list", "off"} =>
        \A f \in ws_processed : Invocations(f) = 1

\* C33: in a streaming extraction whose process exits with status zero (and
\* whose scans raise no error), total_frames of the result equals the number
\* of frame files the process wrote
C33_TotalFramesCountsEveryFile ==
    (ss_kind = "streaming" /\ ss_total_frames # NotComputed /\ ws_errors = 0) =>
        ss_total_frames = watch_dir.files

\* C38: in upload_frames_with_queue queued never exceeds the number of frame
\* files in the directory
C38_EnqueuedOncePerRun ==
    ss_kind = "existing" => SessionQueued <= watch_dir.files

====
